---- MODULE Spec2Model ----
(***************************************************************************)
(* dfu-util: the DfuSe download engine (dfuse.c) and the driver (main.c,   *)
(* dfu_util.c) as state machines.                                          *)
(*                                                                         *)
(* Spec      the DfuSe download engine, dfuse_do_dnload and all it calls,  *)
(*           one action per USB class request or loop step.                *)
(* SpecElem  the same engine on one DfuSe file, with the element, the      *)
(*           memory layout and the transfer size varied.                   *)
(* SpecMain  the driver: probe, run-time entry, re-probe, status check,    *)
(*           transfer size negotiation.                                    *)
(* SpecStatus, SpecStuck, SpecPersist, SpecParse, SpecProbe, SpecUnstick,  *)
(* SpecOptions, SpecUpload: one part of the program each (the status       *)
(* check, one special command, the container parser, the descriptor        *)
(* search, the STM32H7 fix, dfuse_parse_options, dfuse_do_upload).         *)
(*                                                                         *)
(* unsigned int is UintBits wide here (32 in the build): every unsigned    *)
(* expression is reduced modulo UintMod, every (int) cast is ToInt.        *)
(***************************************************************************)
EXTENDS Integers, Sequences, FiniteSets, TLC

(* ------------------------------------------------------------------ *)
(* Bounds of the model                                                 *)
(* ------------------------------------------------------------------ *)

\* width of unsigned int in the model
UintBits == 6

\* GETSTATUS polls of one session that the modelled device answers "not yet",
\* the first poll of a special command (which must find dfuDNBUSY) not counted
MaxBusy == 5

\* the same, in the runs that vary the element and the layout
MaxElemBusy == 1

(* ------------------------------------------------------------------ *)
(* Program constants                                                   *)
(* ------------------------------------------------------------------ *)

DFUSE_READABLE == 1
DFUSE_ERASABLE == 2
DFUSE_WRITEABLE == 4

n_polls_max == 4
n_stalls_max == 3
n_timeouts_max == 100
MASS_ERASE_LIE == 100
MASS_ERASE_TIMEOUT == 35000

BCD_DFUSE == 282            \* 0x011a
BCD_DFU10 == 256            \* 0x0100
IMPOSSIBLE_ID == 65536      \* 0x10000

(* ------------------------------------------------------------------ *)
(* unsigned int arithmetic                                             *)
(* ------------------------------------------------------------------ *)

UintMod == 2 ^ UintBits

U(x) == x % UintMod

\* (int)x of an unsigned x
ToInt(x) == IF x >= UintMod \div 2 THEN x - UintMod ELSE x

RECURSIVE BitAnd(_, _)
BitAnd(a, b) ==
  IF a = 0 \/ b = 0 THEN 0
  ELSE 2 * BitAnd(a \div 2, b \div 2) + (IF a % 2 = 1 /\ b % 2 = 1 THEN 1 ELSE 0)

\* address & (page_size - 1): the offset in the page
PageOffset(address, page_size) == BitAnd(address, page_size - 1)

\* address & ~(page_size - 1), the int mask converted to unsigned
PageStart(address, page_size) == BitAnd(address, U(UintMod - page_size))

(* ------------------------------------------------------------------ *)
(* Memory layouts                                                      *)
(* ------------------------------------------------------------------ *)

Seg(s, e, ps, t) == [start |-> s, end |-> e, pagesize |-> ps, memtype |-> t]

\* "@Flash /8/04*004 g": four erasable, writeable pages
LayoutFlash == << Seg(8, 23, 4, 7) >>

\* large pages followed by small pages, both erasable and writeable
LayoutMixed == << Seg(8, 15, 4, 7), Seg(16, 23, 2, 7) >>

\* flash, then RAM (readable, writeable), then a read-only block
LayoutRam == << Seg(8, 15, 4, 7), Seg(16, 23, 4, 5), Seg(24, 27, 4, 1) >>

Layouts == { LayoutFlash, LayoutMixed, LayoutRam }

\* index of the segment that contains address, 0 when there is none
find_segment(layout, address) ==
  IF \E i \in 1..Len(layout) : layout[i].start <= address /\ address <= layout[i].end
  THEN CHOOSE i \in 1..Len(layout) :
         /\ layout[i].start <= address /\ address <= layout[i].end
         /\ \A j \in 1..(i - 1) : ~(layout[j].start <= address /\ address <= layout[j].end)
  ELSE 0

HasType(layout, i, bit) == i # 0 /\ BitAnd(layout[i].memtype, bit) # 0

(* ------------------------------------------------------------------ *)
(* State                                                               *)
(* ------------------------------------------------------------------ *)

VARIABLES
  \* dfuse.c statics
  last_erased_page, dfuse_address, dfuse_address_present, dfuse_force,
  dfuse_leave, dfuse_unprotect, dfuse_mass_erase, dfuse_will_reset, dfuse_length,
  dfuse_options,  \* the option string, one character per element
  po,             \* frame of dfuse_parse_options
  up,             \* frame of dfuse_do_upload
  \* arguments of dfuse_do_dnload
  dif,            \* [vendor, product, serial_name, quirk_leave, mem_layout]
  xfer_size,
  file,           \* [name, bcdDFU, elements]
  \* control
  pc,             \* position in the engine
  exit_status,    \* errx code and message, empty while running
  ret,            \* return value of dfuse_do_dnload so far
  sc,             \* frame of dfuse_special_command
  el,             \* frame of dfuse_dnload_element
  ck,             \* frame of dfuse_dnload_chunk
  df,             \* frame of dfuse_do_dfuse_dnload
  \* the wire
  lastReq,        \* the last class request issued
  prevReq,        \* the kind of the request before it
  busyLeft,       \* polls the device may still answer without finishing
  elemLog,        \* the commands the current dfuse_dnload_element call sent
  \* main.c
  bus,            \* the USB devices enumerated now, in list order
  dfu_root,       \* the list of DFU interfaces found by the last probe
  opt_device, match_vendor, match_product, match_vendor_dfu, match_product_dfu,
  match_iface_alt_index,
  mode,
  opt_transfer_size,   \* the value parse_number returned for -t, 0 without -t
  transfer_size,       \* unsigned int transfer_size, read as a 32-bit int
  status,              \* struct dfu_status status
  runtime_vendor, runtime_product,
  usbOps               \* the libusb calls of main that are no class requests

\* what only dfuse_parse_options and dfuse_do_upload change
parsing == << dfuse_length, dfuse_options, po, up >>
opts == << dfuse_address, dfuse_address_present, dfuse_force, dfuse_leave,
           dfuse_unprotect, dfuse_mass_erase, dfuse_will_reset, parsing >>
matches == << opt_device, match_vendor, match_product, match_vendor_dfu, match_product_dfu,
              match_iface_alt_index >>
driver == << bus, dfu_root, matches, mode, opt_transfer_size, transfer_size, status,
             runtime_vendor, runtime_product, usbOps >>
given == << dif, xfer_size, file, driver >>
args == << given, df >>
wire == << lastReq, prevReq >>
engine == << last_erased_page, opts, args, pc, exit_status, ret, sc, el, ck,
             wire, busyLeft, elemLog >>

(* ------------------------------------------------------------------ *)
(* The device, as the engine sees it                                   *)
(* ------------------------------------------------------------------ *)

DfuStates == { "dfuIDLE", "dfuDNBUSY", "dfuDNLOAD_IDLE", "dfuMANIFEST", "dfuERROR" }
DfuStatuses == { "OK", "errERASE" }
PollTimeouts == { 0, 5, 100 }

\* dfu_get_status: the reply to one DFU_GETSTATUS; a failed transfer leaves
\* the record at its initial value
StatusReplies ==
  [ ret : {"OK"}, bState : DfuStates, bStatus : DfuStatuses, bwPollTimeout : PollTimeouts ]
  \cup
  [ ret : {"PIPE", "IO"}, bState : {"dfuERROR"}, bStatus : {"errUNKNOWN"}, bwPollTimeout : {0} ]

NoStatus == [ ret |-> "OK", bState |-> "", bStatus |-> "", bwPollTimeout |-> 0 ]

NoReq == [ req |-> "NONE", wValue |-> 0, len |-> 0, data |-> << >> ]
Req(r, v, l, d) == [ req |-> r, wValue |-> v, len |-> l, data |-> d ]

\* one class request goes out
Issue(r) == /\ lastReq' = r
            /\ prevReq' = lastReq.req

NoSc == [ command |-> "", address |-> 0, retpc |-> "", ret |-> "OK", bState |-> "",
          n_polls |-> 0,
          n_stalls |-> 0, bwPollTimeout |-> 0, poll_timeout |-> 0, n_timeouts |-> 0 ]
NoEl == [ idx |-> 0, dwElementAddress |-> 0, dwElementSize |-> 0, p |-> 0,
          erase_address |-> 0 ]
NoDf == [ data |-> 0, rem |-> 0, image |-> 0, element |-> 0, bTargets |-> 0,
          bAlternateSetting |-> 0, dwNbElements |-> 0, adif |-> 0,
          dwElementSize |-> 0, bFirstAddressSaved |-> FALSE, leftover |-> FALSE ]
\* of dst the chunk frame keeps what is read after the poll round; of the
\* sleep, whether it lasted what the poll reported
NoDst == [ bState |-> "", bStatus |-> "" ]
NoCk == [ size |-> 0, ret |-> 0, bytes_sent |-> 0, dst |-> NoDst, slept_reported |-> TRUE,
          result |-> 0, retpc |-> "" ]

NoPo == [ options |-> 0, past_end |-> FALSE ]
NoUp == [ total_bytes |-> 0, upload_limit |-> 0, transaction |-> 0, rc |-> 0 ]

\* errx(code, msg): the process ends
Errx(code, msg) == /\ pc' = "exit"
                   /\ exit_status' = [ code |-> code, msg |-> msg ]

Running == [ code |-> "", msg |-> "" ]

\* one libusb call that is no class request, and how it ended
UsbOp(op, arg, ok) == [ op |-> op, arg |-> arg, ok |-> ok ]
Rc(done) == IF done THEN "OK" ELSE "IO"

\* the commands of the current dfuse_dnload_element call, in the order sent
Logged(kind, addr, len) == [ kind |-> kind, addr |-> addr, len |-> len ]

\* the match collection: dif, dif->next and so on
Chain == << dif >> \o dif.next

\* the struct dfu_if the element is written through: the one
\* dfuse_do_dfuse_dnload selected for the target, dif itself on every other path
CalledWith == IF df.adif = 0 THEN dif ELSE Chain[df.adif]

(* ------------------------------------------------------------------ *)
(* dfuse_special_command                                               *)
(* ------------------------------------------------------------------ *)

CommandByte(command) ==
  CASE command = "ERASE_PAGE" -> 65        \* 0x41
    [] command = "SET_ADDRESS" -> 33       \* 0x21
    [] command = "MASS_ERASE" -> 65        \* 0x41
    [] command = "READ_UNPROTECT" -> 146   \* 0x92

CommandLengthAlwaysFive(command) == 5

CommandLength(command) ==
  IF command \in { "ERASE_PAGE", "SET_ADDRESS" } THEN 5 ELSE 1

\* buf[0..4]: the command byte and the address, least significant byte first
CommandBuf(command, address) ==
  << CommandByte(command), address % 256, (address \div 256) % 256,
     (address \div 65536) % 256, (address \div 16777216) % 256 >>

\* dif->serial_name compared over sizeof("200364500000") = 13 bytes, the
\* terminating NUL included: equal only for that very string
Stm32h7Serial(d) == d.serial_name = "200364500000"
Stm32h7Device(d) == d.vendor = 1155 /\ d.product = 57105     \* 0483:df11

\* where the do-loop's body starts: the STM32H7 fix comes before the poll
LoopTopAlways(command, n_polls) ==
  IF command = "ERASE_PAGE" /\ Stm32h7Device(dif) /\ Stm32h7Serial(dif)
  THEN "sc_clear" ELSE "sc_getstatus"
LoopTop(command, n_polls) ==
  IF n_polls > n_polls_max /\ command = "ERASE_PAGE" /\ Stm32h7Device(dif)
       /\ Stm32h7Serial(dif)
  THEN "sc_clear" ELSE "sc_getstatus"

\* a call of dfuse_special_command(dif, address, command), to return to retpc
CallSpecial(address, command, retpc) ==
  /\ pc' = "sc_dnload"
  /\ sc' = [ NoSc EXCEPT !.command = command, !.address = address, !.retpc = retpc ]

ErasePageRefusedNoType(layout, address) ==
  find_segment(layout, address) = 0
ErasePageRefused(layout, address) ==
  LET segment == find_segment(layout, address)
  IN segment = 0 \/ ~HasType(layout, segment, DFUSE_ERASABLE)

\* the switch on the command and the DFU_DNLOAD that carries it
SpecialCommandDownload ==
  /\ pc = "sc_dnload"
  /\ IF sc.command = "ERASE_PAGE" /\ ErasePageRefused(CalledWith.mem_layout, sc.address)
     THEN /\ Errx("EX_USAGE", "Page can not be erased")
          /\ UNCHANGED << last_erased_page, wire, elemLog, sc >>
     ELSE /\ Issue(Req("DNLOAD", 0, CommandLength(sc.command),
                       SubSeq(CommandBuf(sc.command, sc.address), 1,
                              CommandLength(sc.command))))
          /\ last_erased_page' =
               IF sc.command = "ERASE_PAGE"
               THEN PageStart(sc.address,
                              CalledWith.mem_layout[find_segment(CalledWith.mem_layout, sc.address)].pagesize)
               ELSE last_erased_page
          /\ elemLog' = IF el.idx # 0
                        THEN Append(elemLog, Logged(sc.command, sc.address, 0))
                        ELSE elemLog
          /\ \E ok \in BOOLEAN :
               IF ok THEN /\ pc' = LoopTop(sc.command, 0)
                          /\ UNCHANGED << exit_status, sc >>
               ELSE /\ Errx("EX_IOERR", "Error during special command download")
                    /\ UNCHANGED sc
  /\ UNCHANGED << opts, args, ret, el, ck, busyLeft >>

\* the STM32H7 fix: dfu_clear_status(dif->dev_handle, 0)
SpecialClearStatus ==
  /\ pc = "sc_clear"
  /\ Issue(Req("CLRSTATUS", 0, 0, << >>))
  /\ pc' = "sc_getstatus"
  /\ UNCHANGED << last_erased_page, opts, args, exit_status, ret, sc, el, ck, busyLeft,
                  elemLog >>

\* one round of the do-loop from dfu_get_status on, and what follows the loop
\* the stall workaround of the poll loop: a stalled pipe counts as dfuDNBUSY
StallToleratedAnyCount(r, poll_timeout, n_stalls) ==
  r = "PIPE" /\ poll_timeout # 0

StallTolerated(r, poll_timeout, n_stalls) ==
  r = "PIPE" /\ poll_timeout # 0 /\ n_stalls < n_stalls_max

\* the count of consecutive polls that left dst.bwPollTimeout at zero
CountTimeoutsNoReset(bwPollTimeout, n_timeouts) == n_timeouts + 1

CountTimeouts(bwPollTimeout, n_timeouts) ==
  IF bwPollTimeout = 0 THEN n_timeouts + 1 ELSE 0

\* the time milli_sleep is called with: STM32F405 lies about mass erase timeout
SleepForAnyPoll(command, n_polls, bwPollTimeout, polled) ==
  IF command = "MASS_ERASE" /\ bwPollTimeout = MASS_ERASE_LIE
  THEN MASS_ERASE_TIMEOUT ELSE polled
SleepFor(command, n_polls, bwPollTimeout, polled) ==
  IF n_polls = 0 /\ command = "MASS_ERASE" /\ bwPollTimeout = MASS_ERASE_LIE
  THEN MASS_ERASE_TIMEOUT ELSE polled

\* n_polls == 0 and dst.bState != DFU_STATE_dfuDNBUSY
WrongFirstStateNever(n_polls, bState) == FALSE
WrongFirstState(n_polls, bState) == n_polls = 0 /\ bState # "dfuDNBUSY"

\* if (command == READ_UNPROTECT) return ret, after the first sleep
ReturnsAfterPollNever(command) == FALSE
ReturnsAfterPoll(command) == command = "READ_UNPROTECT"

\* busyLeft of a session whose device may keep the poll loop going for ever
Unbounded == -1

SpecialGetStatus ==
  /\ pc = "sc_getstatus"
  /\ Issue(Req("GETSTATUS", 0, 6, << >>))
  /\ \E r \in StatusReplies :
       LET stalled == StallTolerated(r.ret, sc.poll_timeout, sc.n_stalls)
           bState == IF stalled THEN "dfuDNBUSY" ELSE r.bState
           n_stalls == IF stalled THEN sc.n_stalls + 1 ELSE sc.n_stalls
           polled == IF stalled THEN sc.poll_timeout ELSE r.bwPollTimeout
           poll_timeout == SleepFor(sc.command, sc.n_polls, r.bwPollTimeout, polled)
           n_timeouts == CountTimeouts(r.bwPollTimeout, sc.n_timeouts)
           n_polls == IF sc.n_polls > n_polls_max THEN sc.n_polls ELSE sc.n_polls + 1
       IN
       IF ~stalled /\ r.ret # "OK"
       THEN Errx("EX_IOERR", "Error during special command get_status")
            /\ sc' = [ sc EXCEPT !.ret = r.ret, !.bState = bState ]
            /\ UNCHANGED << ret, busyLeft >>
       ELSE IF WrongFirstState(sc.n_polls, bState)
       THEN Errx("EX_PROTOCOL", "Wrong state after command download")
            /\ sc' = [ sc EXCEPT !.ret = r.ret, !.bState = bState ]
            /\ UNCHANGED << ret, busyLeft >>
       ELSE IF ReturnsAfterPoll(sc.command)
       THEN /\ pc' = sc.retpc
            /\ ret' = 6
            /\ sc' = NoSc
            /\ UNCHANGED << exit_status, busyLeft >>
       ELSE IF n_timeouts = n_timeouts_max
       THEN Errx("EX_IOERR", "Device stuck after special command request")
            /\ sc' = [ sc EXCEPT !.ret = r.ret, !.bState = bState, !.n_stalls = n_stalls,
                                 !.bwPollTimeout = r.bwPollTimeout,
                                 !.poll_timeout = poll_timeout,
                                 !.n_timeouts = n_timeouts ]
            /\ UNCHANGED << ret, busyLeft >>
       ELSE IF bState \in { "dfuDNBUSY", "dfuERROR" }
       THEN /\ sc.n_polls = 0 \/ busyLeft # 0
            /\ busyLeft' = IF sc.n_polls = 0 \/ busyLeft = Unbounded
                           THEN busyLeft ELSE busyLeft - 1
            /\ pc' = LoopTop(sc.command, n_polls)
            /\ sc' = [ sc EXCEPT !.ret = r.ret, !.bState = bState,
                                 !.n_polls = n_polls,
                                 !.n_stalls = n_stalls,
                                 !.bwPollTimeout = r.bwPollTimeout,
                                 !.poll_timeout = poll_timeout,
                                 !.n_timeouts = n_timeouts ]
            /\ UNCHANGED << exit_status, ret >>
       ELSE IF r.bStatus # "OK"
               /\ ~(sc.command = "ERASE_PAGE" /\ Stm32h7Device(dif) /\ ~Stm32h7Serial(dif))
       THEN Errx("EX_IOERR", "command ended with an error")
            /\ sc' = [ sc EXCEPT !.ret = r.ret, !.bState = bState ]
            /\ UNCHANGED << ret, busyLeft >>
       ELSE /\ pc' = sc.retpc
            /\ sc' = NoSc
            /\ UNCHANGED << exit_status, ret, busyLeft >>
  /\ UNCHANGED << last_erased_page, opts, args, el, ck, elemLog >>

(* ------------------------------------------------------------------ *)
(* dfuse_dnload_chunk                                                  *)
(* ------------------------------------------------------------------ *)

\* what libusb_control_transfer may return for a transfer of size bytes
SentCounts(size) == { n \in { 0, size - 1, size } : n >= 0 }

\* chunk_size of the chunk at offset p
ChunkSize(p, dwElementSize, xfer) ==
  IF p + xfer > ToInt(dwElementSize) THEN ToInt(dwElementSize) - p ELSE xfer

\* the state values that end the poll loop of dfuse_dnload_chunk
ChunkPollEndsOnBusy(bState, will_reset) ==
  bState \in { "dfuDNLOAD_IDLE", "dfuERROR", "dfuMANIFEST", "dfuDNBUSY" }
ChunkPollEnds(bState, will_reset) ==
  \/ bState \in { "dfuDNLOAD_IDLE", "dfuERROR", "dfuMANIFEST" }
  \/ (will_reset /\ bState = "dfuDNBUSY")

\* dif->quirks & QUIRK_DFUSE_LEAVE
LeaveQuirkNever(d) == FALSE
LeaveQuirk(d) == d.quirk_leave

\* dfuse_download(dif, size, size ? data : NULL, transaction) of a data chunk
\* (from the write pass) or of the leave request
ChunkDownload ==
  /\ \/ pc = "write_chunk"
     \/ pc = "leave_send" /\ ~LeaveQuirk(dif)
  /\ LET size == IF pc = "write_chunk"
                 THEN ChunkSize(el.p, el.dwElementSize, xfer_size) ELSE 0
         retpc == IF pc = "write_chunk" THEN "write_check" ELSE "done"
     IN /\ Issue(Req("DNLOAD", 2, size, << >>))
        /\ elemLog' = IF pc = "write_chunk"
                      THEN Append(elemLog,
                                  Logged("DATA", U(el.dwElementAddress + el.p), size))
                      ELSE elemLog
        /\ \E ok \in BOOLEAN :
             IF ok
             THEN /\ \E n \in SentCounts(size) :
                       ck' = [ NoCk EXCEPT !.size = size, !.ret = n, !.bytes_sent = n,
                                           !.retpc = retpc ]
                  /\ pc' = "ck_getstatus"
                  /\ UNCHANGED exit_status
             ELSE /\ ck' = [ NoCk EXCEPT !.size = size, !.ret = -1, !.retpc = retpc ]
                  /\ Errx("EX_IOERR", "Error during download")
  /\ UNCHANGED << last_erased_page, opts, args, ret, sc, el, busyLeft >>

\* struct dfu_status dst as dfu_get_status filled it
Dst(r) == [ bState |-> r.bState, bStatus |-> r.bStatus ]

\* milli_sleep(dst.bwPollTimeout): the time slept after a poll
ChunkSleepNone(bwPollTimeout) == 0
ChunkSleep(bwPollTimeout) == bwPollTimeout

\* one round of the poll loop of dfuse_dnload_chunk, and its return
ChunkGetStatus ==
  /\ pc = "ck_getstatus"
  /\ Issue(Req("GETSTATUS", 0, 6, << >>))
  /\ \E r \in StatusReplies :
       IF r.ret # "OK"
       THEN Errx("EX_IOERR", "Error during download get_status")
            /\ UNCHANGED << ck, busyLeft >>
       ELSE IF ~ChunkPollEnds(r.bState, dfuse_will_reset)
       THEN /\ busyLeft > 0
            /\ busyLeft' = busyLeft - 1
            /\ ck' = [ ck EXCEPT !.dst = Dst(r),
                                  !.slept_reported = ChunkSleep(r.bwPollTimeout) = r.bwPollTimeout ]
            /\ UNCHANGED << pc, exit_status >>
       ELSE /\ pc' = ck.retpc
            /\ ck' = [ ck EXCEPT !.dst = Dst(r),
                                  !.slept_reported = ChunkSleep(r.bwPollTimeout) = r.bwPollTimeout,
                                  !.result = IF r.bStatus # "OK" THEN -1
                                             ELSE ck.bytes_sent ]
            /\ UNCHANGED << exit_status, busyLeft >>
  /\ UNCHANGED << last_erased_page, opts, args, ret, sc, el, elemLog >>

(* ------------------------------------------------------------------ *)
(* dfuse_dnload_element                                                *)
(* ------------------------------------------------------------------ *)

\* !dfuse_force && (!segment || !(segment->memtype & DFUSE_WRITEABLE))
NotWriteableNoNull(layout, address, force) ==
  LET segment == find_segment(layout, address)
  IN ~force /\ segment # 0 /\ ~HasType(layout, segment, DFUSE_WRITEABLE)
NotWriteable(layout, address, force) ==
  LET segment == find_segment(layout, address)
  IN ~force /\ (segment = 0 \/ ~HasType(layout, segment, DFUSE_WRITEABLE))

\* address of the chunk at offset p, and the page size of its segment
ChunkAddress == U(el.dwElementAddress + el.p)
ChunkPageSize ==
  CalledWith.mem_layout[find_segment(CalledWith.mem_layout, ChunkAddress)].pagesize
ThisChunkSize == ChunkSize(el.p, el.dwElementSize, xfer_size)

\* the check of the last address
ElementEntry ==
  /\ pc = "el_entry"
  /\ IF NotWriteable(CalledWith.mem_layout, U(el.dwElementAddress + el.dwElementSize - 1),
                     dfuse_force)
     THEN Errx("EX_USAGE", "Last page is not writeable")
     ELSE pc' = "erase_head" /\ UNCHANGED exit_status
  /\ UNCHANGED << last_erased_page, opts, args, ret, sc, el, ck, wire, busyLeft,
                  elemLog >>

\* (segment->memtype & DFUSE_ERASABLE) && !dfuse_mass_erase, segment not NULL
EraseWantedDespiteMassErase(layout, address, mass_erase) ==
  LET segment == find_segment(layout, address)
  IN segment # 0 /\ HasType(layout, segment, DFUSE_ERASABLE)
EraseWanted(layout, address, mass_erase) ==
  LET segment == find_segment(layout, address)
  IN segment # 0 /\ HasType(layout, segment, DFUSE_ERASABLE) /\ ~mass_erase

\* first pass, the head of the loop over the chunks
EraseChunkHead ==
  /\ pc = "erase_head"
  /\ IF ~(el.p < ToInt(el.dwElementSize))
     THEN /\ pc' = "write_head"
          /\ el' = [ el EXCEPT !.p = 0 ]
          /\ UNCHANGED exit_status
     ELSE IF NotWriteable(CalledWith.mem_layout, ChunkAddress, dfuse_force)
          THEN Errx("EX_USAGE", "Page is not writeable") /\ UNCHANGED el
          ELSE IF EraseWanted(CalledWith.mem_layout, ChunkAddress, dfuse_mass_erase)
          THEN /\ pc' = "erase_pages"
               /\ el' = [ el EXCEPT !.erase_address = ChunkAddress ]
               /\ UNCHANGED exit_status
          ELSE /\ el' = [ el EXCEPT !.p = el.p + xfer_size ]
               /\ UNCHANGED << pc, exit_status >>
  /\ UNCHANGED << last_erased_page, opts, args, ret, sc, ck, wire, busyLeft, elemLog >>

\* (address & ~(page_size - 1)) != last_erased_page
NotErasedLastAlways(address, page_size) == TRUE

NotErasedLast(address, page_size) == PageStart(address, page_size) # last_erased_page

\* the loop over the pages of one chunk
ErasePageLoop ==
  /\ pc = "erase_pages"
  /\ IF el.erase_address < U(ChunkAddress + ThisChunkSize)
     THEN IF NotErasedLast(el.erase_address, ChunkPageSize)
          THEN CallSpecial(el.erase_address, "ERASE_PAGE", "erase_next")
               /\ UNCHANGED el
          ELSE /\ el' = [ el EXCEPT !.erase_address = U(el.erase_address + ChunkPageSize) ]
               /\ UNCHANGED << pc, sc >>
     ELSE /\ pc' = "erase_extra"
          /\ UNCHANGED << el, sc >>
  /\ UNCHANGED << last_erased_page, opts, args, exit_status, ret, ck, wire, busyLeft,
                  elemLog >>

\* erase_address += page_size after the erase of a page
ErasePageNext ==
  /\ pc = "erase_next"
  /\ el' = [ el EXCEPT !.erase_address = U(el.erase_address + ChunkPageSize) ]
  /\ pc' = "erase_pages"
  /\ UNCHANGED << last_erased_page, opts, args, exit_status, ret, sc, ck, wire, busyLeft,
                  elemLog >>

\* the page of the last byte of the chunk
EraseExtra ==
  /\ pc = "erase_extra"
  /\ IF NotErasedLast(U(ChunkAddress + ThisChunkSize - 1), ChunkPageSize)
     THEN CallSpecial(U(ChunkAddress + ThisChunkSize - 1), "ERASE_PAGE", "erase_chunk_end")
          /\ UNCHANGED el
     ELSE /\ pc' = "erase_head"
          /\ el' = [ el EXCEPT !.p = el.p + xfer_size ]
          /\ UNCHANGED sc
  /\ UNCHANGED << last_erased_page, opts, args, exit_status, ret, ck, wire, busyLeft,
                  elemLog >>

\* p += xfer_size after the extra erase
EraseChunkEnd ==
  /\ pc = "erase_chunk_end"
  /\ pc' = "erase_head"
  /\ el' = [ el EXCEPT !.p = el.p + xfer_size ]
  /\ UNCHANGED << last_erased_page, opts, args, exit_status, ret, sc, ck, wire, busyLeft,
                  elemLog >>

\* second pass, the head of the loop over the chunks
WriteHead ==
  /\ pc = "write_head"
  /\ IF el.p < ToInt(el.dwElementSize)
     THEN CallSpecial(ChunkAddress, "SET_ADDRESS", "write_chunk")
     ELSE pc' = "el_return" /\ UNCHANGED sc
  /\ UNCHANGED << last_erased_page, opts, args, exit_status, ret, el, ck, wire, busyLeft,
                  elemLog >>

\* the comparison of the result of dfuse_dnload_chunk with the chunk size
WholeChunkWrittenAlways(result, chunk_size) == TRUE
WholeChunkWritten(result, chunk_size) == result = chunk_size

\* erase and write in one pass over the chunks
WriteCheckOnePass ==
  /\ pc = "write_check"
  /\ IF ~WholeChunkWritten(ck.result, ck.size)
     THEN Errx("EX_IOERR", "Failed to write whole chunk") /\ UNCHANGED el
     ELSE /\ pc' = "erase_head"
          /\ el' = [ el EXCEPT !.p = el.p + xfer_size ]
          /\ UNCHANGED exit_status
  /\ UNCHANGED << last_erased_page, opts, args, ret, sc, ck, wire, busyLeft, elemLog >>

\* ret != chunk_size after dfuse_dnload_chunk, whose own dst is gone by then
WriteCheck ==
  /\ pc = "write_check"
  /\ IF ~WholeChunkWritten(ck.result, ck.size)
     THEN Errx("EX_IOERR", "Failed to write whole chunk") /\ UNCHANGED el
     ELSE /\ pc' = "write_head"
          /\ el' = [ el EXCEPT !.p = el.p + xfer_size ]
          /\ UNCHANGED exit_status
  /\ ck' = [ ck EXCEPT !.dst = NoDst ]
  /\ UNCHANGED << last_erased_page, opts, args, ret, sc, wire, busyLeft, elemLog >>

(* ------------------------------------------------------------------ *)
(* dfuse_do_dnload, dfuse_do_bin_dnload, dfuse_do_dfuse_dnload         *)
(* ------------------------------------------------------------------ *)

\* a call of dfuse_dnload_element for element idx of the file
CallElement(idx, address, size) ==
  /\ pc' = "el_entry"
  /\ el' = [ NoEl EXCEPT !.idx = idx, !.dwElementAddress = address,
                         !.dwElementSize = size ]
  /\ elemLog' = << >>

\* unprotect and mass-erase both need force
NeedsForceNever(force) == FALSE
NeedsForce(force) == ~force

\* where dfuse_do_dnload goes on after the read unprotect: return ret
AfterUnprotectDispatch == "dispatch"
AfterUnprotect == "done"

\* the special commands dfuse_do_dnload starts with
DoDnloadStart ==
  /\ pc = "start"
  /\ IF dfuse_unprotect
     THEN IF NeedsForce(dfuse_force)
          THEN Errx("EX_USAGE", "read unprotect can only be used with force")
               /\ UNCHANGED sc
          ELSE CallSpecial(0, "READ_UNPROTECT", AfterUnprotect) /\ UNCHANGED exit_status
     ELSE IF dfuse_mass_erase
     THEN IF NeedsForce(dfuse_force)
          THEN Errx("EX_USAGE", "mass erase can only be used with force")
               /\ UNCHANGED sc
          ELSE CallSpecial(0, "MASS_ERASE", "dispatch") /\ UNCHANGED exit_status
     ELSE pc' = "dispatch" /\ UNCHANGED << sc, exit_status >>
  /\ UNCHANGED << last_erased_page, opts, args, ret, el, ck, wire, busyLeft, elemLog >>

\* command mode, raw binary or DfuSe file; for a DfuSe file the headers of the
\* first element are read here
Dispatch ==
  /\ pc = "dispatch"
  /\ IF ~file.name
     THEN /\ pc' = "after_file"
          /\ ret' = 0
          /\ UNCHANGED << exit_status, el, elemLog, dfuse_address >>
     ELSE IF dfuse_address_present
     THEN IF file.bcdDFU = BCD_DFUSE
          THEN Errx("EX_USAGE", "This is a DfuSe file, not meant for raw download")
               /\ UNCHANGED << ret, el, elemLog, dfuse_address >>
          ELSE CallElement(1, dfuse_address, file.elements[1].size)
               /\ UNCHANGED << exit_status, ret, dfuse_address >>
     ELSE IF file.bcdDFU # BCD_DFUSE
     THEN Errx("EX_USAGE", "for raw binary download, use the --dfuse-address option")
          /\ UNCHANGED << ret, el, elemLog, dfuse_address >>
     ELSE IF Len(file.elements) = 0
     THEN /\ pc' = "after_file"
          /\ ret' = 0
          /\ UNCHANGED << exit_status, el, elemLog, dfuse_address >>
     ELSE /\ CallElement(1, file.elements[1].addr, file.elements[1].size)
          /\ dfuse_address' = file.elements[1].addr
          /\ UNCHANGED << exit_status, ret >>
  /\ UNCHANGED << last_erased_page, dfuse_address_present, dfuse_force, dfuse_leave,
                  dfuse_unprotect, dfuse_mass_erase, dfuse_will_reset, parsing, args, sc,
                  ck, wire, busyLeft >>

\* dfuse_dnload_element has returned 0: the next element, or the end of the file
ElementReturn ==
  /\ pc = "el_return"
  /\ IF ~dfuse_address_present /\ el.idx < Len(file.elements)
     THEN CallElement(el.idx + 1, file.elements[el.idx + 1].addr,
                      file.elements[el.idx + 1].size)
          /\ UNCHANGED ret
     ELSE /\ pc' = "after_file"
          /\ ret' = 0
          /\ el' = NoEl
          /\ elemLog' = << >>
  /\ UNCHANGED << last_erased_page, opts, args, exit_status, sc, ck, wire, busyLeft >>

(* ------------------------------------------------------------------ *)
(* dfuse_do_dfuse_dnload: the DfuSe container, byte by byte            *)
(* ------------------------------------------------------------------ *)

sizeof_dfuprefix == 11
sizeof_targetprefix == 274
sizeof_elementheader == 8

INT_MAX == (2 ^ 30 - 1) + 2 ^ 30
INT_MIN == (-INT_MAX) - 1

\* quad2uint(p) of the four bytes at p, the result read as a 32-bit int
quad2uint(b) ==
  b[1] + b[2] * 256 + b[3] * 65536 + (IF b[4] >= 128 THEN b[4] - 256 ELSE b[4]) * 16777216

\* an unsigned 32-bit value, given by its int reading, in the width of the engine
Scaled(x) == IF x < -(UintMod \div 2) THEN UintMod \div 2
             ELSE IF x > UintMod - 1 THEN UintMod - 1
             ELSE U(x)

\* the n bytes at offset data of the file; a read outside the buffer may
\* deliver any bytes
BytesAt(data, n) ==
  IF data >= 0 /\ data + n <= Len(file.firmware)
  THEN { SubSeq(file.firmware, data + 1, data + n) }
  ELSE [ 1..n -> { 0, 255 } ]

\* (*rem) -= size of dfuse_memcpy: the results an int subtraction can have,
\* "trap" for a build that traps on signed overflow
RemAfter(rem, size) ==
  IF size < 0 /\ rem > INT_MAX + size
  THEN { [ trap |-> FALSE, rem |-> (rem - INT_MAX - 1) - (size + INT_MAX + 1) ],
         [ trap |-> TRUE, rem |-> rem ] }
  ELSE { [ trap |-> FALSE, rem |-> rem - size ] }

\* the sanity check of the element size against the bytes that remain
ElementTooLarge(dwElementSize, rem) == dwElementSize > rem

DfuSeSignature == << 68, 102, 117, 83, 101 >>
TargetSignature == << 84, 97, 114, 103, 101, 116 >>

\* Must be larger than a minimal DfuSe header and suffix
TooSmallNever(rem) == FALSE
TooSmall(rem) == rem < sizeof_dfuprefix + sizeof_targetprefix + sizeof_elementheader

\* the entry: the size check, the DfuSe prefix
DfuseDnloadEntry ==
  /\ pc = "df_start"
  /\ LET rem == file.size.total - file.size.prefix - file.size.suffix
         data == file.size.prefix
     IN
     IF TooSmall(rem)
     THEN /\ Errx("EX_DATAERR", "File too small for a DfuSe file")
          /\ df' = [ NoDf EXCEPT !.data = data, !.rem = rem ]
     ELSE \E dfuprefix \in BytesAt(data, sizeof_dfuprefix) :
            LET read == [ NoDf EXCEPT !.data = data + sizeof_dfuprefix,
                                      !.rem = rem - sizeof_dfuprefix ]
            IN
            IF SubSeq(dfuprefix, 1, 5) # DfuSeSignature
            THEN Errx("EX_DATAERR", "No valid DfuSe signature") /\ df' = read
            ELSE IF dfuprefix[6] # 1
            THEN Errx("EX_DATAERR", "DFU format revision not supported") /\ df' = read
            ELSE /\ pc' = "df_image"
                 /\ df' = [ read EXCEPT !.bTargets = dfuprefix[11], !.image = 1 ]
                 /\ UNCHANGED exit_status
  /\ UNCHANGED << last_erased_page, opts, given, ret, sc, el, ck, wire, busyLeft,
                  elemLog >>

\* while (adif): the first interface of the chain that has the alternate
\* setting of the target, 0 for NULL
FindAltRoot(chain, bAlternateSetting) == 1
FindAlt(chain, bAlternateSetting) ==
  IF \E i \in DOMAIN chain : chain[i].altsetting = bAlternateSetting
  THEN CHOOSE i \in DOMAIN chain :
         /\ chain[i].altsetting = bAlternateSetting
         /\ \A j \in 1..(i - 1) : chain[j].altsetting # bAlternateSetting
  ELSE 0

\* the head of the loop over the images: the target prefix and the alternate
\* setting, or the end of the file
DfuseImage ==
  /\ pc = "df_image"
  /\ IF df.image > df.bTargets
     THEN /\ pc' = "after_file"
          /\ ret' = 0
          /\ df' = [ df EXCEPT !.leftover = (df.rem # 0) ]
          /\ UNCHANGED << exit_status, usbOps >>
     ELSE IF sizeof_targetprefix > df.rem
     THEN /\ Errx("EX_NOINPUT", "Corrupt DfuSe file: Cannot read bytes")
          /\ UNCHANGED << ret, df, usbOps >>
     ELSE \E targetprefix \in BytesAt(df.data, sizeof_targetprefix), set_alt_ok \in BOOLEAN :
            LET bAlternateSetting == targetprefix[7]
                adif == FindAlt(Chain, bAlternateSetting)
                read == [ df EXCEPT !.data = df.data + sizeof_targetprefix,
                                    !.rem = df.rem - sizeof_targetprefix ]
                found == [ read EXCEPT
                             !.bAlternateSetting = bAlternateSetting,
                             !.dwNbElements = quad2uint(SubSeq(targetprefix, 271, 274)),
                             !.adif = adif,
                             !.element = 1 ]
            IN
            /\ UNCHANGED ret
            /\ IF SubSeq(targetprefix, 1, 6) # TargetSignature
               THEN /\ Errx("EX_DATAERR", "No valid target signature")
                    /\ df' = read
                    /\ UNCHANGED usbOps
               ELSE IF adif = 0
               THEN /\ set_alt_ok
                    /\ pc' = "df_element"
                    /\ df' = found
                    /\ UNCHANGED << exit_status, usbOps >>
               ELSE /\ usbOps' = Append(usbOps, UsbOp("set_interface_alt_setting",
                                                      Chain[adif].altsetting, Rc(set_alt_ok)))
                    /\ df' = found
                    /\ IF ~set_alt_ok
                       THEN Errx("EX_IOERR", "Cannot set alternate interface")
                       ELSE pc' = "df_element" /\ UNCHANGED exit_status
  /\ UNCHANGED << last_erased_page, opts, dif, xfer_size, file, bus, dfu_root, matches,
                  mode, opt_transfer_size, transfer_size, status, runtime_vendor,
                  runtime_product, sc, el, ck, wire, busyLeft, elemLog >>

\* the head of the loop over the elements: the element header, the sanity
\* check, the call of dfuse_dnload_element when the alternate setting exists
DfuseElement ==
  /\ pc = "df_element"
  /\ IF df.element > df.dwNbElements
     THEN /\ pc' = "df_image"
          /\ df' = [ df EXCEPT !.image = df.image + 1 ]
          /\ UNCHANGED << exit_status, dfuse_address, el, elemLog >>
     ELSE IF sizeof_elementheader > df.rem
     THEN /\ Errx("EX_NOINPUT", "Corrupt DfuSe file: Cannot read bytes")
          /\ UNCHANGED << df, dfuse_address, el, elemLog >>
     ELSE \E elementheader \in BytesAt(df.data, sizeof_elementheader) :
            LET dwElementAddress == Scaled(quad2uint(SubSeq(elementheader, 1, 4)))
                dwElementSize == quad2uint(SubSeq(elementheader, 5, 8))
                read == [ df EXCEPT !.data = df.data + sizeof_elementheader,
                                    !.rem = df.rem - sizeof_elementheader,
                                    !.dwElementSize = dwElementSize,
                                    !.bFirstAddressSaved = TRUE ]
            IN
            /\ df' = read
            /\ dfuse_address' = IF df.bFirstAddressSaved THEN dfuse_address
                                ELSE dwElementAddress
            /\ IF ElementTooLarge(dwElementSize, read.rem)
               THEN /\ Errx("EX_DATAERR", "File too small for element size")
                    /\ UNCHANGED << el, elemLog >>
               ELSE IF df.adif # 0
               THEN /\ CallElement(df.element, dwElementAddress, Scaled(dwElementSize))
                    /\ UNCHANGED exit_status
               ELSE /\ pc' = "el_return"
                    /\ UNCHANGED << exit_status, el, elemLog >>
  /\ UNCHANGED << last_erased_page, dfuse_address_present, dfuse_force, dfuse_leave,
                  dfuse_unprotect, dfuse_mass_erase, dfuse_will_reset, parsing, given,
                  ret, sc, ck, wire, busyLeft >>

\* dfuse_dnload_element has returned 0, or was skipped: the read pointer
\* advances over the element
DfuseAdvance ==
  /\ pc = "el_return"
  /\ IF df.dwElementSize > df.rem
     THEN /\ Errx("EX_NOINPUT", "Corrupt DfuSe file: Cannot read bytes")
          /\ UNCHANGED df
     ELSE \E after \in RemAfter(df.rem, df.dwElementSize) :
            IF after.trap
            THEN /\ Errx("SIGNAL", "signed integer overflow")
                 /\ UNCHANGED df
            ELSE /\ pc' = "df_element"
                 /\ df' = [ df EXCEPT !.data = df.data + df.dwElementSize,
                                      !.rem = after.rem,
                                      !.element = df.element + 1 ]
                 /\ UNCHANGED exit_status
  /\ UNCHANGED << last_erased_page, opts, given, ret, sc, el, ck, wire, busyLeft,
                  elemLog >>

\* after the file: dfu_abort_to_idle unless the device will reset, then leave
AfterFile ==
  /\ pc = "after_file"
  /\ IF ~dfuse_will_reset
     THEN /\ Issue(Req("ABORT", 0, 0, << >>))
          /\ \E ok \in BOOLEAN :
               IF ok THEN pc' = "abort_status" /\ UNCHANGED exit_status
               ELSE Errx("EX_IOERR", "Error sending dfu abort request")
     ELSE /\ pc' = IF dfuse_leave THEN "leave" ELSE "done"
          /\ UNCHANGED << wire, exit_status >>
  /\ UNCHANGED << last_erased_page, opts, args, ret, sc, el, ck, busyLeft, elemLog >>

\* dfu_abort_to_idle: poll until dfuIDLE
AbortGetStatus ==
  /\ pc = "abort_status"
  /\ Issue(Req("GETSTATUS", 0, 6, << >>))
  /\ \E r \in StatusReplies :
       IF r.ret # "OK"
       THEN Errx("EX_IOERR", "Error during abort get_status") /\ UNCHANGED busyLeft
       ELSE IF r.bState # "dfuIDLE"
       THEN /\ busyLeft > 0
            /\ busyLeft' = busyLeft - 1
            /\ UNCHANGED << pc, exit_status >>
       ELSE /\ pc' = IF dfuse_leave THEN "leave" ELSE "done"
            /\ UNCHANGED << exit_status, busyLeft >>
  /\ UNCHANGED << last_erased_page, opts, args, ret, sc, el, ck, elemLog >>

\* dfuse_do_leave: the address first, when one is known
DoLeave ==
  /\ pc = "leave"
  /\ IF dfuse_address_present
     THEN CallSpecial(dfuse_address, "SET_ADDRESS", "leave_send")
     ELSE pc' = "leave_send" /\ UNCHANGED sc
  /\ UNCHANGED << last_erased_page, opts, args, exit_status, ret, el, ck, wire, busyLeft,
                  elemLog >>

\* the leave request on a device with QUIRK_DFUSE_LEAVE: its result is dropped
LeaveQuirkDownload ==
  /\ pc = "leave_send"
  /\ LeaveQuirk(dif)
  /\ Issue(Req("DNLOAD", 2, 0, << >>))
  /\ pc' = "leave_status"
  /\ UNCHANGED << last_erased_page, opts, args, exit_status, ret, sc, el, ck, busyLeft,
                  elemLog >>

LeaveQuirkGetStatus ==
  /\ pc = "leave_status"
  /\ Issue(Req("GETSTATUS", 0, 6, << >>))
  /\ pc' = "done"
  /\ UNCHANGED << last_erased_page, opts, args, exit_status, ret, sc, el, ck, busyLeft,
                  elemLog >>

(* ------------------------------------------------------------------ *)
(* dfu_util.c: probing the bus                                         *)
(* ------------------------------------------------------------------ *)

USB_DT_DFU == 33
USB_DFU_WILL_DETACH == 8
sizeof_func_dfu == 9

\* the bytes of a DFU functional descriptor that declares bLength, cut where
\* the declared length ends
FuncDescriptor(bLength, will_detach, wTransferSize, bcdDFUVersion) ==
  SubSeq(<< bLength, USB_DT_DFU, (IF will_detach THEN USB_DFU_WILL_DETACH + 1 ELSE 1),
            255, 0, wTransferSize % 256, wTransferSize \div 256,
            bcdDFUVersion % 256, bcdDFUVersion \div 256 >>,
         1, IF bLength < sizeof_func_dfu THEN bLength ELSE sizeof_func_dfu)

\* one alternate setting of the DFU interface
Alt(class, subclass, extra) ==
  [ bInterfaceClass |-> class, bInterfaceSubClass |-> subclass, extra |-> extra ]

\* a USB device with one configuration and one DFU interface, which has
\* nalt alternate settings of the same protocol; its functional descriptor
\* follows the interface descriptor of each alternate setting
Dev(id, v, p, proto, bcd, intf, nalt, bmax, wts, wd) ==
  [ dev |-> id, idVendor |-> v, idProduct |-> p, bInterfaceProtocol |-> proto,
    bInterfaceNumber |-> intf, bNumInterfaces |-> intf + 1,
    num_altsetting |-> nalt, bMaxPacketSize0 |-> bmax,
    extra |-> << >>,
    altsetting |-> [ i \in 1..2 |-> Alt(254, 1, FuncDescriptor(9, wd, wts, bcd)) ],
    get_descriptor |-> [ ret |-> -1, data |-> << >> ] ]

\* find_descriptor(desc_list, list_len, desc_type, res_buf, res_size) from
\* offset p on: the length it returns and the bytes it copies
RECURSIVE FindFrom(_, _, _, _)
FindFrom(desc_list, p, desc_type, res_size) ==
  LET list_len == Len(desc_list)
      none == [ ret |-> -1, data |-> << >> ]
  IN IF ~(p + 1 < list_len) THEN none
     ELSE LET desclen == desc_list[p + 1] IN
          IF desclen = 0 THEN none
          ELSE IF desc_list[p + 2] = desc_type
          THEN LET clipped == IF desclen > res_size THEN res_size ELSE desclen
                   copied == IF p + clipped > list_len THEN list_len - p ELSE clipped
               IN [ ret |-> copied, data |-> SubSeq(desc_list, p + 1, p + copied) ]
          ELSE FindFrom(desc_list, p + desclen, desc_type, res_size)

find_descriptor(desc_list, desc_type, res_size) ==
  IF Len(desc_list) < 2 THEN [ ret |-> -1, data |-> << >> ]
  ELSE FindFrom(desc_list, 0, desc_type, res_size)

\* bInterfaceClass 0xfe, bInterfaceSubClass 1
DfuClass(alt) == alt.bInterfaceClass = 254 /\ alt.bInterfaceSubClass = 1

\* the search over the alternate settings, from alt_idx on: the first
\* descriptor found in the extra bytes of a DFU alternate setting
RECURSIVE SearchAlts(_, _)
SearchAlts(d, alt_idx) ==
  IF ~(alt_idx < d.num_altsetting) THEN [ ret |-> -1, data |-> << >>, has_dfu |-> FALSE ]
  ELSE LET alt == d.altsetting[alt_idx + 1]
           here == find_descriptor(alt.extra, USB_DT_DFU, sizeof_func_dfu)
           rest == SearchAlts(d, alt_idx + 1)
       IN IF ~DfuClass(alt) THEN rest
          ELSE IF here.ret > -1 THEN [ ret |-> here.ret, data |-> here.data, has_dfu |-> FALSE ]
          ELSE [ rest EXCEPT !.has_dfu = rest.ret = -1 ]

\* struct usb_dfu_func_descriptor after memset and a copy of data to its start
FuncDfuOf(data, how) ==
  LET b == [ i \in 1..sizeof_func_dfu |-> IF i <= Len(data) THEN data[i] ELSE 0 ]
  IN [ how |-> how, bLength |-> b[1], bmAttributes |-> b[3],
       wTransferSize |-> b[6] + 256 * b[7], bcdDFUVersion |-> b[8] + 256 * b[9] ]

\* where probe_configuration takes the functional descriptor from, "none" when
\* the configuration has no DFU interface
LocateFuncDfu(d) ==
  LET cfg == find_descriptor(d.extra, USB_DT_DFU, sizeof_func_dfu)
      intf == SearchAlts(d, 0)
  IN IF cfg.ret > -1 THEN FuncDfuOf(cfg.data, "config")
     ELSE IF intf.ret > -1 THEN FuncDfuOf(intf.data, "interface")
     ELSE IF ~intf.has_dfu THEN FuncDfuOf(<< >>, "none")
     ELSE IF d.get_descriptor.ret > -1
     THEN FuncDfuOf(SubSeq(d.get_descriptor.data, 1, d.get_descriptor.ret), "request")
     ELSE [ FuncDfuOf(<< >>, "fake") EXCEPT !.bLength = 7, !.bcdDFUVersion = BCD_DFU10 ]

\* found_dfu: the version and the transfer size of a short descriptor
found_dfu(d) ==
  LET func_dfu == LocateFuncDfu(d) IN
  IF func_dfu.bLength = 7 THEN [ func_dfu EXCEPT !.bcdDFUVersion = BCD_DFU10 ]
  ELSE IF func_dfu.bLength < 9
  THEN [ func_dfu EXCEPT !.bcdDFUVersion = BCD_DFU10, !.wTransferSize = 0 ]
  ELSE func_dfu

\* dfu_mode of an alternate setting of the DFU interface
DfuMode(d) ==
  \/ d.bInterfaceProtocol = 2
  \/ found_dfu(d).bcdDFUVersion = BCD_DFUSE /\ d.bInterfaceProtocol = 0
  \/ d.idVendor = 8137 /\ d.idProduct = 12 /\ d.bInterfaceProtocol = 1
  \/ d.idVendor = 2830 /\ d.bInterfaceProtocol = 0 /\ d.bNumInterfaces = 1

\* the -d and -a filters on one alternate setting; m is the match_* record
Selected(d, alt_idx, m) ==
  /\ ~(DfuMode(d) /\ m.iface_alt_index > -1 /\ m.iface_alt_index # alt_idx)
  /\ IF DfuMode(d)
     THEN ~(\/ m.vendor_dfu >= 0 /\ m.vendor_dfu # d.idVendor
            \/ m.product_dfu >= 0 /\ m.product_dfu # d.idProduct)
     ELSE ~(\/ m.vendor >= 0 /\ m.vendor # d.idVendor
            \/ m.product >= 0 /\ m.product # d.idProduct)

\* the struct dfu_if appended for one alternate setting
DfuIf(d, alt_idx) ==
  LET func_dfu == found_dfu(d) IN
  [ dev |-> d.dev, vendor |-> d.idVendor, product |-> d.idProduct,
    bLength |-> func_dfu.bLength,
    bcdDFUVersion |-> func_dfu.bcdDFUVersion, wTransferSize |-> func_dfu.wTransferSize,
    will_detach |-> BitAnd(func_dfu.bmAttributes, USB_DFU_WILL_DETACH) # 0,
    configuration |-> 1,
    interface |-> d.bInterfaceNumber, altsetting |-> alt_idx,
    DFU_IFF_DFU |-> DfuMode(d), DFU_IFF_ALT |-> d.num_altsetting > 0,
    bMaxPacketSize0 |-> d.bMaxPacketSize0 ]

\* the loop over the alternate settings, from alt_idx on
RECURSIVE ProbeAlts(_, _, _)
ProbeAlts(d, alt_idx, m) ==
  IF ~(alt_idx < d.num_altsetting) THEN << >>
  ELSE (IF DfuClass(d.altsetting[alt_idx + 1]) /\ Selected(d, alt_idx, m)
        THEN << DfuIf(d, alt_idx) >> ELSE << >>)
       \o ProbeAlts(d, alt_idx + 1, m)

probe_configuration(d, m) ==
  IF found_dfu(d).how = "none" THEN << >> ELSE ProbeAlts(d, 0, m)

\* the loop over the device list, from i on
RECURSIVE ProbeFrom(_, _, _)
ProbeFrom(list, i, m) ==
  IF i > Len(list) THEN << >>
  ELSE probe_configuration(list[i], m) \o ProbeFrom(list, i + 1, m)

probe_devices(list, m) == ProbeFrom(list, 1, m)

Matches(mv, mp) ==
  [ vendor |-> mv, product |-> mp, vendor_dfu |-> match_vendor_dfu,
    product_dfu |-> match_product_dfu, iface_alt_index |-> match_iface_alt_index ]

\* dfuse_multiple_alt: every entry is on the device, configuration and
\* interface of the first
dfuse_multiple_alt(root) ==
  \A i \in 2..Len(root) :
    /\ root[i].dev = root[1].dev
    /\ root[i].configuration = root[1].configuration
    /\ root[i].interface = root[1].interface

(* ------------------------------------------------------------------ *)
(* main.c: from the first probe to the hand-over                       *)
(* ------------------------------------------------------------------ *)

MainStates == { "appIDLE", "appDETACH", "dfuIDLE", "dfuDNLOAD_IDLE", "dfuUPLOAD_IDLE",
                "dfuERROR" }

\* dfu_get_status as main sees it
MainStatusReplies ==
  [ ret : {"OK"}, bState : MainStates, bStatus : DfuStatuses, bwPollTimeout : {0} ]
  \cup
  [ ret : {"PIPE", "IO"}, bState : {"dfuERROR"}, bStatus : {"errUNKNOWN"}, bwPollTimeout : {0} ]

\* uint16_t runtime_vendor = an int
Uint16(x) == x % 65536

\* everything main leaves alone while it talks to the device
engineState == << last_erased_page, opts, dif, file, ret, sc, el, ck, df, busyLeft,
                 elemLog >>

\* probe: probe_devices(ctx) and the checks on what it found
MainProbe ==
  /\ pc = "probe"
  /\ LET root == probe_devices(bus, Matches(match_vendor, match_product)) IN
     IF mode = "LIST"
     THEN /\ dfu_root' = << >>
          /\ pc' = "exit"
          /\ exit_status' = [ code |-> "EX_OK", msg |-> "" ]
     ELSE /\ dfu_root' = root
          /\ IF root = << >>
             THEN /\ pc' = "exit"
                  /\ exit_status' = [ code |-> "EX_IOERR",
                                      msg |-> "No DFU capable USB device available" ]
             ELSE IF file.bcdDFU = BCD_DFUSE /\ dfuse_multiple_alt(root)
             THEN pc' = "open" /\ UNCHANGED exit_status
             ELSE IF Len(root) > 1
             THEN Errx("EX_IOERR", "More than one DFU capable USB device found!\n")
             ELSE pc' = "open" /\ UNCHANGED exit_status
  /\ UNCHANGED << engineState, usbOps, wire, xfer_size, bus, matches, mode, opt_transfer_size,
                  transfer_size, status, runtime_vendor, runtime_product >>

\* libusb_open of the first entry, and the choice of the branch
MainOpen ==
  /\ pc = "open"
  /\ \E opened \in BOOLEAN :
       IF ~opened
       THEN /\ Errx("EX_IOERR", "Cannot open device: %s")
            /\ UNCHANGED << runtime_vendor, runtime_product >>
       ELSE /\ UNCHANGED exit_status
            /\ IF ~dfu_root[1].DFU_IFF_DFU
               THEN /\ runtime_vendor' = dfu_root[1].vendor
                    /\ runtime_product' = dfu_root[1].product
                    /\ pc' = "rt_claim"
               ELSE /\ runtime_vendor' = IF match_vendor < 0 THEN dfu_root[1].vendor
                                         ELSE Uint16(match_vendor)
                    /\ runtime_product' = IF match_product < 0 THEN dfu_root[1].product
                                          ELSE Uint16(match_product)
                    /\ pc' = "dfustate"
  /\ UNCHANGED << engineState, usbOps, wire, xfer_size, bus, dfu_root, matches, mode,
                  opt_transfer_size, transfer_size, status >>

mainRest == << engineState, xfer_size, bus, dfu_root, matches, mode, opt_transfer_size,
               transfer_size, runtime_vendor, runtime_product >>
quiet == << mainRest, usbOps >>

\* libusb_claim_interface in run-time mode
RtClaim ==
  /\ pc = "rt_claim"
  /\ \E claimed \in BOOLEAN :
       /\ usbOps' = Append(usbOps, UsbOp("claim_interface", dfu_root[1].interface, Rc(claimed)))
       /\ IF ~claimed
          THEN Errx("EX_IOERR", "Cannot claim interface %d: %s")
          ELSE /\ pc' = IF dfu_root[1].interface > 0 \/ dfu_root[1].DFU_IFF_ALT
                        THEN "rt_setalt" ELSE "rt_getstatus"
               /\ UNCHANGED exit_status
  /\ UNCHANGED << mainRest, wire, status >>

\* libusb_set_interface_alt_setting(.., 0) in run-time mode
RtSetAlt ==
  /\ pc = "rt_setalt"
  /\ \E set \in BOOLEAN :
       /\ usbOps' = Append(usbOps, UsbOp("set_interface_alt_setting", 0, Rc(set)))
       /\ IF ~set
          THEN Errx("EX_IOERR", "Cannot set alternate interface zero: %s")
          ELSE pc' = "rt_getstatus" /\ UNCHANGED exit_status
  /\ UNCHANGED << mainRest, wire, status >>

\* err == LIBUSB_ERROR_PIPE: the device is taken to be in appIDLE
AssumedIdleOnAnyError(err) == err # "OK"
AssumedIdle(err) == err = "PIPE"

\* dfu_get_status in run-time mode and the switch on the state
RtGetStatus ==
  /\ pc = "rt_getstatus"
  /\ Issue(Req("GETSTATUS", 0, 6, << >>))
  /\ \E r \in MainStatusReplies :
       IF AssumedIdle(r.ret)
       THEN /\ status' = [ ret |-> r.ret, bState |-> "appIDLE", bStatus |-> "OK",
                           bwPollTimeout |-> 0 ]
            /\ pc' = "rt_detach"
            /\ UNCHANGED exit_status
       ELSE IF r.ret # "OK"
       THEN Errx("EX_IOERR", "error get_status: %s") /\ UNCHANGED status
       ELSE /\ status' = r
            /\ pc' = IF r.bState \in { "appIDLE", "appDETACH" } THEN "rt_detach"
                     ELSE IF r.bState = "dfuERROR" THEN "rt_clear"
                     ELSE "dfustate"
            /\ UNCHANGED exit_status
  /\ UNCHANGED quiet

\* case DFU_STATE_dfuERROR: dfu_clear_status, then on to dfustate
RtClear ==
  /\ pc = "rt_clear"
  /\ Issue(Req("CLRSTATUS", 0, 0, << >>))
  /\ \E cleared \in BOOLEAN :
       IF ~cleared
       THEN Errx("EX_IOERR", "error clear_status")
       ELSE pc' = "dfustate" /\ UNCHANGED exit_status
  /\ UNCHANGED << quiet, status >>

\* bmAttributes & USB_DFU_WILL_DETACH: wait for the device, else reset it
DetachNextAlwaysReset(d) == "rt_reset"
DetachNext(d) == IF d.will_detach THEN "rt_leave" ELSE "rt_reset"

\* dfu_detach(.., 1000); a failure is only warned about
RtDetach ==
  /\ pc = "rt_detach"
  /\ Issue(Req("DETACH", 1000, 0, << >>))
  /\ pc' = DetachNext(dfu_root[1])
  /\ UNCHANGED << quiet, exit_status, status >>

\* ret < 0 && ret != LIBUSB_ERROR_NOT_FOUND
ResetFailed(r) == r # "OK" /\ r # "NOT_FOUND"

\* libusb_reset_device
RtReset ==
  /\ pc = "rt_reset"
  /\ \E r \in { "OK", "NOT_FOUND", "IO" } :
       /\ usbOps' = Append(usbOps, UsbOp("reset_device", 0, r))
       /\ IF ResetFailed(r)
          THEN Errx("EX_IOERR", "error resetting after detach: %s")
          ELSE pc' = "rt_leave" /\ UNCHANGED exit_status
  /\ UNCHANGED << mainRest, wire, status >>

\* the device in DFU mode after the detach: nalt alternate settings, product p
DfuForm(d, nalt, p) ==
  [ d EXCEPT !.bInterfaceProtocol = 2, !.bInterfaceNumber = 0, !.bNumInterfaces = 1,
             !.num_altsetting = nalt, !.idProduct = p ]

\* what a detached or reset device may come back as
AfterDetach(d) ==
  { d, DfuForm(d, 1, d.idProduct), DfuForm(d, 2, d.idProduct),
    DfuForm(d, 1, d.idProduct + 1) }

\* the bus after device id has gone through detach: it is back in one of its
\* forms, or it is gone
Reenumerations(list, id) ==
  LET i == CHOOSE k \in DOMAIN list : list[k].dev = id IN
  { [ list EXCEPT ![i] = f ] : f \in AfterDetach(list[i]) }
  \cup { SubSeq(list, 1, i - 1) \o SubSeq(list, i + 1, Len(list)) }

\* release, close, disconnect_devices, return in detach mode, and the sleep
\* of detach_delay seconds during which the device re-enumerates
RtLeave ==
  /\ pc = "rt_leave"
  /\ bus' \in Reenumerations(bus, dfu_root[1].dev)
  /\ dfu_root' = << >>
  /\ IF mode = "DETACH"
     THEN pc' = "exit" /\ exit_status' = [ code |-> "EX_OK", msg |-> "" ]
     ELSE pc' = "reprobe" /\ UNCHANGED exit_status
  /\ UNCHANGED << engineState, usbOps, wire, xfer_size, matches, mode, opt_transfer_size,
                  transfer_size, status, runtime_vendor, runtime_product >>

\* match_vendor = match_product = 0x10000
ReprobeMatchIdKept(old) == old
ReprobeMatchId(old) == IMPOSSIBLE_ID

\* the second probe_devices(ctx)
Reprobe ==
  /\ pc = "reprobe"
  /\ match_vendor' = ReprobeMatchId(match_vendor)
  /\ match_product' = ReprobeMatchId(match_product)
  /\ dfu_root' = probe_devices(bus, Matches(match_vendor', match_product'))
  /\ pc' = "reprobe_check"
  /\ UNCHANGED << engineState, usbOps, wire, xfer_size, bus, opt_device, match_vendor_dfu, match_product_dfu,
                  match_iface_alt_index, mode, opt_transfer_size, transfer_size, status,
                  runtime_vendor, runtime_product, exit_status >>

\* dfu_root->next != NULL after the second probe
TooManyUnlessAlts(root) == Len(root) > 1 /\ ~dfuse_multiple_alt(root)
TooMany(root) == Len(root) > 1

\* !(dfu_root->flags | DFU_IFF_DFU): the or with a set bit is never zero
FlagsOrDfuIsZero(i) == FALSE

\* the checks on what the second probe found
ReprobeCheck ==
  /\ pc = "reprobe_check"
  /\ IF dfu_root = << >>
     THEN Errx("EX_IOERR", "Lost device after RESET?")
     ELSE IF TooMany(dfu_root)
     THEN Errx("EX_IOERR", "More than one DFU capable USB device found!")
     ELSE IF FlagsOrDfuIsZero(dfu_root[1])
     THEN Errx("EX_PROTOCOL", "Device is not in DFU mode")
     ELSE pc' = "reopen" /\ UNCHANGED exit_status
  /\ UNCHANGED << quiet, wire, status >>

\* libusb_open of the device found by the second probe
Reopen ==
  /\ pc = "reopen"
  /\ \E opened \in BOOLEAN :
       IF ~opened
       THEN Errx("EX_IOERR", "Cannot open device")
       ELSE pc' = "dfustate" /\ UNCHANGED exit_status
  /\ UNCHANGED << quiet, wire, status >>

\* dfustate: libusb_claim_interface
DfuStateClaim ==
  /\ pc = "dfustate"
  /\ \E claimed \in BOOLEAN :
       /\ usbOps' = Append(usbOps, UsbOp("claim_interface", dfu_root[1].interface, Rc(claimed)))
       /\ IF ~claimed
          THEN Errx("EX_IOERR", "Cannot claim interface - %s")
          ELSE /\ pc' = IF dfu_root[1].DFU_IFF_ALT THEN "setalt" ELSE "status_again"
               /\ UNCHANGED exit_status
  /\ UNCHANGED << mainRest, wire, status >>

\* libusb_set_interface_alt_setting(.., dfu_root->altsetting)
SetAlt ==
  /\ pc = "setalt"
  /\ \E set \in BOOLEAN :
       /\ usbOps' = Append(usbOps, UsbOp("set_interface_alt_setting", dfu_root[1].altsetting, Rc(set)))
       /\ IF ~set
          THEN Errx("EX_IOERR", "Cannot set alternate interface: %s")
          ELSE pc' = "status_again" /\ UNCHANGED exit_status
  /\ UNCHANGED << mainRest, wire, status >>

\* status_again: dfu_get_status and the switch on the state
StatusAgain ==
  /\ pc = "status_again"
  /\ Issue(Req("GETSTATUS", 0, 6, << >>))
  /\ \E r \in MainStatusReplies :
       IF r.ret # "OK"
       THEN Errx("EX_IOERR", "error get_status: %s") /\ UNCHANGED status
       ELSE /\ status' = r
            /\ IF r.bState \in { "appIDLE", "appDETACH" }
               THEN Errx("EX_PROTOCOL", "Device still in Run-Time Mode!")
               ELSE /\ pc' = IF r.bState = "dfuERROR" THEN "st_clear"
                             ELSE IF r.bState \in { "dfuDNLOAD_IDLE", "dfuUPLOAD_IDLE" }
                             THEN "st_abort"
                             ELSE IF r.bStatus # "OK" THEN "st_clear_again"
                             ELSE "negotiate"
                    /\ UNCHANGED exit_status
  /\ UNCHANGED quiet

\* case DFU_STATE_dfuERROR: dfu_clear_status, goto status_again
StClear ==
  /\ pc = "st_clear"
  /\ Issue(Req("CLRSTATUS", 0, 0, << >>))
  /\ \E cleared \in BOOLEAN :
       IF ~cleared
       THEN Errx("EX_IOERR", "error clear_status")
       ELSE pc' = "status_again" /\ UNCHANGED exit_status
  /\ UNCHANGED << quiet, status >>

\* case dfuDNLOAD_IDLE, dfuUPLOAD_IDLE: dfu_abort, goto status_again
StAbort ==
  /\ pc = "st_abort"
  /\ Issue(Req("ABORT", 0, 0, << >>))
  /\ \E aborted \in BOOLEAN :
       IF ~aborted
       THEN Errx("EX_IOERR", "can't send DFU_ABORT")
       ELSE pc' = "status_again" /\ UNCHANGED exit_status
  /\ UNCHANGED << quiet, status >>

\* DFU_STATUS_OK != status.bStatus: dfu_clear_status
StClearAgain ==
  /\ pc = "st_clear_again"
  /\ Issue(Req("CLRSTATUS", 0, 0, << >>))
  /\ \E cleared \in BOOLEAN :
       IF ~cleared
       THEN Errx("EX_IOERR", "USB communication error")
       ELSE pc' = "st_get_again" /\ UNCHANGED exit_status
  /\ UNCHANGED << quiet, status >>

\* ... and dfu_get_status once more
StGetAgain ==
  /\ pc = "st_get_again"
  /\ Issue(Req("GETSTATUS", 0, 6, << >>))
  /\ \E r \in MainStatusReplies :
       IF r.ret # "OK"
       THEN Errx("EX_IOERR", "USB communication error") /\ UNCHANGED status
       ELSE /\ status' = r
            /\ IF r.bStatus # "OK"
               THEN Errx("EX_PROTOCOL", "Status is not OK: %d")
               ELSE pc' = "negotiate" /\ UNCHANGED exit_status
  /\ UNCHANGED quiet

\* (int)transfer_size > 4096
LimitLinux(ts) == IF ts > 4096 THEN 4096 ELSE ts

\* transfer_size < dfu_root->bMaxPacketSize0, compared as unsigned
AdjustToPacket(ts, bMaxPacketSize0) ==
  IF ts >= 0 /\ ts < bMaxPacketSize0 THEN bMaxPacketSize0 ELSE ts

\* the transfer size from the device or the user
Negotiate ==
  /\ pc = "negotiate"
  /\ LET func_dfu_transfer_size == dfu_root[1].wTransferSize
         chosen == IF func_dfu_transfer_size # 0 /\ transfer_size = 0
                   THEN func_dfu_transfer_size ELSE transfer_size
     IN IF func_dfu_transfer_size = 0 /\ transfer_size = 0
        THEN Errx("EX_USAGE", "Transfer size must be specified")
             /\ UNCHANGED transfer_size
        ELSE /\ transfer_size' = AdjustToPacket(LimitLinux(chosen),
                                                dfu_root[1].bMaxPacketSize0)
             /\ pc' = "mode_dispatch"
             /\ UNCHANGED exit_status
  /\ UNCHANGED << engineState, usbOps, wire, xfer_size, bus, dfu_root, matches, mode,
                  opt_transfer_size, status, runtime_vendor, runtime_product >>

FileIdMismatchNever == FALSE

\* the file's IDs match neither the run-time nor the DFU-mode IDs
FileIdMismatch ==
  /\ \/ file.idVendor # 65535 /\ file.idVendor # runtime_vendor
     \/ file.idProduct # 65535 /\ file.idProduct # runtime_product
  /\ \/ file.idVendor # 65535 /\ file.idVendor # dfu_root[1].vendor
     \/ file.idProduct # 65535 /\ file.idProduct # dfu_root[1].product

\* switch (mode): the transfer size is handed to the upload or download routine
ModeDispatch ==
  /\ pc = "mode_dispatch"
  /\ \/ /\ mode = "UPLOAD"
        /\ \E created \in BOOLEAN :
             IF created
             THEN xfer_size' = transfer_size /\ pc' = "handed" /\ UNCHANGED exit_status
             ELSE /\ pc' = "exit"
                  /\ exit_status' = [ code |-> "EX_CANTCREAT", msg |-> "" ]
                  /\ UNCHANGED xfer_size
        /\ UNCHANGED wire
     \/ /\ mode = "DOWNLOAD"
        /\ IF FileIdMismatch
           THEN Errx("EX_USAGE", "Error: File ID %04x:%04x does not match device")
                /\ UNCHANGED xfer_size
           ELSE xfer_size' = transfer_size /\ pc' = "handed" /\ UNCHANGED exit_status
        /\ UNCHANGED wire
     \/ /\ mode = "DETACH"
        /\ Issue(Req("DETACH", 1000, 0, << >>))
        /\ pc' = "main_done"
        /\ UNCHANGED << xfer_size, exit_status >>
  /\ UNCHANGED << engineState, usbOps, bus, dfu_root, matches, mode, opt_transfer_size,
                  transfer_size, status, runtime_vendor, runtime_product >>

(* ------------------------------------------------------------------ *)
(* Inputs                                                              *)
(* ------------------------------------------------------------------ *)

Element(a, n) == [ addr |-> a, size |-> n ]

Devices ==
  { [ vendor |-> 1155, product |-> 57105, serial_name |-> "200364500000" ],
    [ vendor |-> 1155, product |-> 57105, serial_name |-> "UNKNOWN" ] }

\* the devices the STM32H7 fix is tried on: also a longer serial name with
\* the same beginning, and the serial name on a device of another vendor
Stm32h7Candidates ==
  Devices \cup
  { [ vendor |-> 1155, product |-> 57105, serial_name |-> "2003645000001A2B" ],
    [ vendor |-> 4660, product |-> 57105, serial_name |-> "200364500000" ] }

Dif(d, q, layout) ==
  [ vendor |-> d.vendor, product |-> d.product, serial_name |-> d.serial_name,
    quirk_leave |-> q, mem_layout |-> layout ]

\* the files of a whole session
SessionFiles ==
  { [ name |-> FALSE, bcdDFU |-> BCD_DFU10, elements |-> << >> ],
    [ name |-> TRUE, bcdDFU |-> BCD_DFU10, elements |-> << Element(10, 6) >> ],
    [ name |-> TRUE, bcdDFU |-> BCD_DFUSE, elements |-> << Element(8, 4) >> ],
    [ name |-> TRUE, bcdDFU |-> BCD_DFUSE,
      elements |-> << Element(8, 2), Element(10, 2) >> ] }

\* the elements the element runs are made of
ElemAddrs == { 0, 8, 10, 12, 14, 22 }
ElemSizes == { 0, 1, 3, 4, 8 }
ElemChoices == { Element(a, n) : a \in ElemAddrs, n \in ElemSizes }
SecondChoices == { Element(10, 2), Element(12, 4), Element(20, 6) }
XferSizes == { 2, 4, 8 }

ElemFiles ==
  { [ name |-> TRUE, bcdDFU |-> BCD_DFUSE, elements |-> << e >> ] : e \in ElemChoices }
  \cup
  { [ name |-> TRUE, bcdDFU |-> BCD_DFUSE, elements |-> << e, f >> ] :
      e \in { Element(8, 3), Element(8, 4), Element(10, 1), Element(14, 8) },
      f \in SecondChoices }

\* main has handed over to the engine: what it left behind plays no part
DriverIdle ==
  /\ bus = << >>
  /\ dfu_root = << >>
  /\ opt_device = << >>
  /\ match_vendor = -1 /\ match_product = -1
  /\ match_vendor_dfu = -1 /\ match_product_dfu = -1
  /\ match_iface_alt_index = -1
  /\ mode = "DOWNLOAD"
  /\ opt_transfer_size = 0
  /\ transfer_size = 0
  /\ status = NoStatus
  /\ runtime_vendor = 0 /\ runtime_product = 0
  /\ usbOps = << >>

EngineIdle ==
  /\ last_erased_page = 1
  /\ dfuse_length = 0
  /\ dfuse_options = << >>
  /\ po = NoPo
  /\ up = NoUp
  /\ exit_status = Running
  /\ ret = 0
  /\ sc = NoSc
  /\ el = NoEl
  /\ ck = NoCk
  /\ df = NoDf
  /\ lastReq = NoReq
  /\ prevReq = "NONE"
  /\ elemLog = << >>

\* dfuse_do_dnload is entered, the options parsed
Init ==
  /\ EngineIdle
  /\ DriverIdle
  /\ pc = "start"
  /\ dfuse_force \in BOOLEAN
  /\ dfuse_leave \in BOOLEAN
  /\ dfuse_unprotect \in BOOLEAN
  /\ dfuse_mass_erase \in BOOLEAN
  /\ dfuse_will_reset \in BOOLEAN
  /\ dfuse_address_present \in BOOLEAN
  /\ file \in SessionFiles
  /\ dfuse_address = IF dfuse_address_present /\ file.elements # << >>
                     THEN file.elements[1].addr ELSE 0
  /\ dfuse_address_present /\ file.name => Len(file.elements) = 1
  /\ \E d \in Devices, q \in BOOLEAN : dif = Dif(d, q, LayoutFlash)
  /\ xfer_size = 4
  /\ busyLeft = MaxBusy

\* dfuse_do_dnload is entered with a DfuSe file: the element, the layout and
\* the transfer size vary
InitElem ==
  /\ EngineIdle
  /\ DriverIdle
  /\ pc = "start"
  /\ dfuse_force \in BOOLEAN
  /\ dfuse_mass_erase \in { FALSE, dfuse_force }
  /\ dfuse_leave = FALSE
  /\ dfuse_unprotect = FALSE
  /\ dfuse_will_reset = FALSE
  /\ dfuse_address_present = FALSE
  /\ dfuse_address = 0
  /\ file \in ElemFiles
  /\ \E layout \in Layouts :
       dif = [ vendor |-> 4660, product |-> 22136, serial_name |-> "UNKNOWN",
               quirk_leave |-> FALSE, mem_layout |-> layout ]
  /\ xfer_size \in XferSizes
  /\ busyLeft = MaxElemBusy

\* the buses main starts on
RunTimeDevices ==
  { Dev(1, 4660, 1, 1, 272, intf, 1, 64, wts, wd) :
      intf \in { 0, 1 }, wts \in { 0, 64 }, wd \in BOOLEAN }
DfuSeDevice == Dev(2, 1155, 57105, 2, BCD_DFUSE, 0, 2, 64, 8192, FALSE)
PlainDfuDevice == Dev(3, 4660, 2, 2, 272, 0, 1, 8, 0, FALSE)
OtherRunTimeDevice == Dev(4, 22136, 1, 1, 272, 0, 1, 64, 64, FALSE)

MainBuses ==
  { << d >> : d \in RunTimeDevices } \cup { << d, DfuSeDevice >> : d \in RunTimeDevices }
  \cup { << d, OtherRunTimeDevice >> : d \in RunTimeDevices }
  \cup { << >>, << DfuSeDevice >>, << PlainDfuDevice >>, << DfuSeDevice, PlainDfuDevice >> }

\* the characters of a -d argument; a position past the end reads the NUL
CharAt(str, pos) == IF pos \in 1..Len(str) THEN str[pos] ELSE "NUL"

\* strchr: the position of the first c at or after from, 0 (NULL) if none
RECURSIVE strchr(_, _, _)
strchr(str, from, c) ==
  IF from > Len(str) THEN 0
  ELSE IF str[from] = c THEN from
  ELSE strchr(str, from + 1, c)

HexDigits == << "0", "1", "2", "3", "4", "5", "6", "7", "8", "9",
                "a", "b", "c", "d", "e", "f" >>

IsHexDigit(c) == \E i \in 1..Len(HexDigits) : HexDigits[i] = c

HexValue(c) == (CHOOSE i \in 1..Len(HexDigits) : HexDigits[i] = c) - 1

\* strtoul(str, &remainder, 16) on an argument without white space, sign or
\* 0x prefix: the digits run from pos, remainder stops at the first other
\* character
RECURSIVE strtoul(_, _, _)
strtoul(str, pos, acc) ==
  IF IsHexDigit(CharAt(str, pos))
  THEN strtoul(str, pos + 1, acc * 16 + HexValue(str[pos]))
  ELSE [ value |-> acc, remainder |-> pos ]

parse_match_value(str, pos, default_value) ==
  IF pos = 0 THEN default_value
  ELSE IF CharAt(str, pos) = "*" THEN -1
  ELSE IF CharAt(str, pos) = "-" THEN IMPOSSIBLE_ID
  ELSE IF strtoul(str, pos, 0).remainder = pos THEN default_value
  ELSE strtoul(str, pos, 0).value

\* parse_vendprod: the four match values a -d argument leaves
parse_vendprod(str) ==
  LET comma == strchr(str, 1, ",")
      found == strchr(str, 1, ":")
      colon == IF found = 0 THEN 0
               ELSE IF comma # 0 /\ found + 1 > comma THEN 0
               ELSE found + 1
      vendor  == IF comma = 1 THEN IMPOSSIBLE_ID ELSE parse_match_value(str, 1, -1)
      product == IF comma = 1 THEN IMPOSSIBLE_ID ELSE parse_match_value(str, colon, -1)
      vendor_default  == IF comma # 0 /\ comma # 1 THEN vendor ELSE -1
      product_default == IF comma # 0 /\ comma # 1 THEN product ELSE -1
      found_dfu_colon == IF comma = 0 THEN 0 ELSE strchr(str, comma + 1, ":")
      colon_dfu == IF found_dfu_colon = 0 THEN 0 ELSE found_dfu_colon + 1
  IN  [ vendor |-> vendor, product |-> product,
        vendor_dfu  |-> IF comma = 0 THEN -1
                        ELSE parse_match_value(str, comma + 1, vendor_default),
        product_dfu |-> IF comma = 0 THEN -1
                        ELSE parse_match_value(str, colon_dfu, product_default) ]

NoDevice == << >>
VP_1234_0001 == << "1", "2", "3", "4", ":", "0", "0", "0", "1" >>
VP_0483_df11 == << "0", "4", "8", "3", ":", "d", "f", "1", "1" >>

\* -d: not given (the initial values are those parse_vendprod starts from),
\* 1234:0001, "1234:0001,", "1234:0001,0483:df11", ",0483:df11"
DeviceArgs ==
  { NoDevice, VP_1234_0001, VP_1234_0001 \o << "," >>,
    VP_1234_0001 \o << "," >> \o VP_0483_df11, << "," >> \o VP_0483_df11 }

\* main, MODE_DOWNLOAD: an ID the user left open is taken from the file suffix
MatchFromFile(match, m, id) ==
  IF m = "DOWNLOAD" /\ match < 0 /\ id # 65535 THEN id ELSE match

\* -t: the values parse_number may return
UserTransferSizes == { -1, 0, 1, 4096, 4097 }

MainFiles ==
  { [ name |-> TRUE, bcdDFU |-> BCD_DFU10, idVendor |-> 65535, idProduct |-> 65535,
      elements |-> << >> ],
    [ name |-> TRUE, bcdDFU |-> BCD_DFUSE, idVendor |-> 1155, idProduct |-> 57105,
      elements |-> << Element(8, 4) >> ] }

\* main has parsed its options and is about to probe
InitMain ==
  /\ EngineIdle
  /\ pc = "probe"
  /\ dfuse_force = FALSE /\ dfuse_leave = FALSE /\ dfuse_unprotect = FALSE
  /\ dfuse_mass_erase = FALSE /\ dfuse_will_reset = FALSE
  /\ dfuse_address_present = FALSE /\ dfuse_address = 0
  /\ dif = Dif([ vendor |-> 0, product |-> 0, serial_name |-> "UNKNOWN" ], FALSE, << >>)
  /\ xfer_size = 0
  /\ busyLeft = 0
  /\ file \in MainFiles
  /\ bus \in MainBuses
  /\ dfu_root = << >>
  /\ mode \in { "LIST", "DETACH", "UPLOAD", "DOWNLOAD" }
  /\ opt_device \in DeviceArgs
  /\ match_vendor = MatchFromFile(parse_vendprod(opt_device).vendor, mode, file.idVendor)
  /\ match_product = MatchFromFile(parse_vendprod(opt_device).product, mode, file.idProduct)
  /\ match_vendor_dfu = parse_vendprod(opt_device).vendor_dfu
  /\ match_product_dfu = parse_vendprod(opt_device).product_dfu
  /\ match_iface_alt_index \in { -1, 0 }
  /\ opt_transfer_size \in UserTransferSizes
  /\ transfer_size = opt_transfer_size
  /\ status = NoStatus
  /\ runtime_vendor = 0 /\ runtime_product = 0
  /\ usbOps = << >>

(* ------------------------------------------------------------------ *)
(* dfuse_parse_options                                                 *)
(* ------------------------------------------------------------------ *)

IsDigitOf(c, base) == IsHexDigit(c) /\ HexValue(c) < base

RECURSIVE DigitsFrom(_, _, _, _)
DigitsFrom(str, pos, base, acc) ==
  IF IsDigitOf(CharAt(str, pos), base)
  THEN DigitsFrom(str, pos + 1, base, acc * base + HexValue(str[pos]))
  ELSE [ value |-> acc, end |-> pos ]

\* strtoul(options, &end, 0) on text without white space or sign: 0x and
\* hexadecimal digits, 0 and octal digits, or decimal digits
strtoul0(str, pos) ==
  IF CharAt(str, pos) = "0" /\ CharAt(str, pos + 1) \in { "x", "X" }
       /\ IsDigitOf(CharAt(str, pos + 2), 16)
  THEN DigitsFrom(str, pos + 2, 16, 0)
  ELSE IF CharAt(str, pos) = "0" THEN DigitsFrom(str, pos, 8, 0)
  ELSE DigitsFrom(str, pos, 10, 0)

\* endword = strchr(options, ':'); if (!endword) endword = options + strlen(options)
Endword(str, pos) ==
  IF strchr(str, pos, ":") = 0 THEN Len(str) + 1 ELSE strchr(str, pos, ":")

\* !strncmp(options, keyword, n): the first n characters are equal, or the
\* strings are equal up to a NUL that both have at the same place
StrncmpZero(str, pos, keyword, n) ==
  \A k \in 1..n :
    \/ CharAt(str, pos + k - 1) = CharAt(keyword, k)
    \/ \E j \in 1..(k - 1) :
         CharAt(str, pos + j - 1) = "NUL" /\ CharAt(keyword, j) = "NUL"

KW_force == << "f", "o", "r", "c", "e" >>
KW_leave == << "l", "e", "a", "v", "e" >>
KW_unprotect == << "u", "n", "p", "r", "o", "t", "e", "c", "t" >>
KW_mass_erase == << "m", "a", "s", "s", "-", "e", "r", "a", "s", "e" >>
KW_will_reset == << "w", "i", "l", "l", "-", "r", "e", "s", "e", "t" >>

\* the keywords in the order the loop tries them
Keywords == << KW_force, KW_leave, KW_unprotect, KW_mass_erase, KW_will_reset >>

\* the index of the first keyword the token at pos is taken for, 0 if none
KeywordAt(str, pos) ==
  LET n == Endword(str, pos) - pos
      hits == { k \in DOMAIN Keywords : StrncmpZero(str, pos, Keywords[k], n) }
  IN IF hits = { } THEN 0 ELSE CHOOSE k \in hits : \A h \in hits : k <= h

\* the address, possibly empty, must be first
ParseOptionsAddress ==
  /\ pc = "po_address"
  /\ IF CharAt(dfuse_options, 1) # ":"
     THEN LET endword == Endword(dfuse_options, 1)
              number == strtoul0(dfuse_options, 1)
          IN IF number.end = endword
             THEN /\ dfuse_address' = U(number.value)
                  /\ dfuse_address_present' = TRUE
                  /\ po' = [ po EXCEPT !.options = endword ]
                  /\ pc' = "po_loop"
                  /\ UNCHANGED exit_status
             ELSE /\ Errx("EX_USAGE", "Invalid dfuse address")
                  /\ UNCHANGED << dfuse_address, dfuse_address_present, po >>
     ELSE /\ po' = [ po EXCEPT !.options = 1 ]
          /\ pc' = "po_loop"
          /\ UNCHANGED << dfuse_address, dfuse_address_present, exit_status >>
  /\ UNCHANGED << last_erased_page, dfuse_force, dfuse_leave, dfuse_unprotect,
                  dfuse_mass_erase, dfuse_will_reset, dfuse_length, dfuse_options, up,
                  args, ret, sc, el, ck, wire, busyLeft, elemLog >>

\* one round of while (*options). A position past the terminating NUL reads
\* memory that is not the string's: it may hold a NUL, or text no keyword
\* matches, or the read may trap
ParseOptionsToken ==
  /\ pc = "po_loop"
  /\ LET str == dfuse_options
         pos == po.options
         keyword == KeywordAt(str, pos)
         number == strtoul0(str, pos)
     IN
     IF pos > Len(str) + 1
     THEN /\ po' = [ po EXCEPT !.past_end = TRUE ]
          /\ UNCHANGED << dfuse_force, dfuse_leave, dfuse_unprotect, dfuse_mass_erase,
                          dfuse_will_reset, dfuse_length >>
          /\ \/ pc' = "po_done" /\ UNCHANGED exit_status
             \/ Errx("EX_USAGE", "Invalid dfuse modifier")
             \/ Errx("SIGNAL", "SIGSEGV")
     ELSE IF CharAt(str, pos) = "NUL"
     THEN /\ pc' = "po_done"
          /\ UNCHANGED << po, exit_status, dfuse_force, dfuse_leave, dfuse_unprotect,
                          dfuse_mass_erase, dfuse_will_reset, dfuse_length >>
     ELSE IF CharAt(str, pos) = ":"
     THEN /\ po' = [ po EXCEPT !.options = pos + 1 ]
          /\ UNCHANGED << pc, exit_status, dfuse_force, dfuse_leave, dfuse_unprotect,
                          dfuse_mass_erase, dfuse_will_reset, dfuse_length >>
     ELSE IF keyword # 0
     THEN /\ dfuse_force' = (dfuse_force \/ keyword = 1)
          /\ dfuse_leave' = (dfuse_leave \/ keyword = 2)
          /\ dfuse_unprotect' = (dfuse_unprotect \/ keyword = 3)
          /\ dfuse_mass_erase' = (dfuse_mass_erase \/ keyword = 4)
          /\ dfuse_will_reset' = (dfuse_will_reset \/ keyword = 5)
          /\ po' = [ po EXCEPT !.options = pos + Len(Keywords[keyword]) ]
          /\ UNCHANGED << pc, exit_status, dfuse_length >>
     ELSE /\ UNCHANGED << dfuse_force, dfuse_leave, dfuse_unprotect, dfuse_mass_erase,
                          dfuse_will_reset >>
          /\ IF number.end = Endword(str, pos)
             THEN /\ dfuse_length' = number.value
                  /\ po' = [ po EXCEPT !.options = Endword(str, pos) ]
                  /\ UNCHANGED << pc, exit_status >>
             ELSE /\ Errx("EX_USAGE", "Invalid dfuse modifier")
                  /\ UNCHANGED << po, dfuse_length >>
  /\ UNCHANGED << last_erased_page, dfuse_address, dfuse_address_present, dfuse_options,
                  up, args, ret, sc, el, ck, wire, busyLeft, elemLog >>

\* the option strings: an address or none, then up to two modifiers, some of
\* them no keyword and no number
Chars_8 == << "8" >>
Chars_0x8 == << "0", "x", "8" >>
Chars_16 == << "1", "6" >>
Chars_f == << "f" >>
Chars_mass == << "m", "a", "s", "s" >>
Chars_forcex == KW_force \o << "x" >>

OptionAddresses == { << >>, Chars_8, Chars_0x8, KW_leave }
OptionModifiers ==
  { KW_force, KW_leave, KW_unprotect, KW_mass_erase, KW_will_reset, Chars_16, Chars_f,
    Chars_mass, Chars_forcex, << >> }
OptionStrings ==
  { a : a \in OptionAddresses }
  \cup { a \o << ":" >> \o m : a \in OptionAddresses, m \in OptionModifiers }
  \cup { a \o << ":" >> \o m \o << ":" >> \o n :
           a \in OptionAddresses, m \in OptionModifiers, n \in OptionModifiers }

\* dfuse_parse_options is entered with the statics at their initial values
InitOptions ==
  /\ last_erased_page = 1
  /\ exit_status = Running
  /\ ret = 0
  /\ sc = NoSc /\ el = NoEl /\ ck = NoCk /\ df = NoDf /\ up = NoUp
  /\ lastReq = NoReq /\ prevReq = "NONE" /\ elemLog = << >>
  /\ DriverIdle
  /\ pc = "po_address"
  /\ dfuse_options \in OptionStrings
  /\ po = [ NoPo EXCEPT !.options = 1 ]
  /\ dfuse_address = 0 /\ dfuse_address_present = FALSE /\ dfuse_length = 0
  /\ dfuse_force = FALSE /\ dfuse_leave = FALSE /\ dfuse_unprotect = FALSE
  /\ dfuse_mass_erase = FALSE /\ dfuse_will_reset = FALSE
  /\ dif = Dif([ vendor |-> 0, product |-> 0, serial_name |-> "UNKNOWN" ], FALSE, << >>)
  /\ file = [ name |-> FALSE, bcdDFU |-> BCD_DFU10, elements |-> << >> ]
  /\ xfer_size = 0
  /\ busyLeft = 0

NextOptions ==
  \/ ParseOptionsAddress
  \/ ParseOptionsToken

SpecOptions == InitOptions /\ [][NextOptions]_engine

(* ------------------------------------------------------------------ *)
(* dfuse_do_upload                                                     *)
(* ------------------------------------------------------------------ *)

\* an int passed for an unsigned short parameter
Ushort(x) == x % 65536

DefaultUploadLimit == 16384     \* 0x4000

\* upload_limit before the loop: dfuse_length, else the rest of the segment
\* of the address, else 0x4000. dfuse_length is kept by its reading as an int
\* of 32 bits, which is what the assignment to upload_limit makes of it
UploadLimit(length, present, layout, address) ==
  LET segment == find_segment(layout, address) IN
  IF length # 0 THEN length
  ELSE IF present /\ segment # 0 THEN layout[segment].end - address + 1
  ELSE DefaultUploadLimit

\* !dfuse_force && (!segment || !(segment->memtype & DFUSE_READABLE))
NotReadable(layout, address, force) ==
  LET segment == find_segment(layout, address)
  IN ~force /\ (segment = 0 \/ ~HasType(layout, segment, DFUSE_READABLE))

\* the entry of dfuse_do_upload, the options parsed: the limit, and with an
\* address the check of the segment and SET_ADDRESS
UploadStart ==
  /\ pc = "up_start"
  /\ up' = [ NoUp EXCEPT
               !.upload_limit = UploadLimit(dfuse_length, dfuse_address_present,
                                            dif.mem_layout, dfuse_address),
               !.transaction = 2 ]
  /\ IF dfuse_address_present
     THEN IF NotReadable(dif.mem_layout, dfuse_address, dfuse_force)
          THEN Errx("EX_USAGE", "Page is not readable") /\ UNCHANGED sc
          ELSE CallSpecial(dfuse_address, "SET_ADDRESS", "up_abort")
               /\ UNCHANGED exit_status
     ELSE pc' = "up_loop" /\ UNCHANGED << sc, exit_status >>
  /\ UNCHANGED << last_erased_page, dfuse_address, dfuse_address_present, dfuse_force,
                  dfuse_leave, dfuse_unprotect, dfuse_mass_erase, dfuse_will_reset,
                  dfuse_length, dfuse_options, po, args, ret, el, ck, wire, busyLeft,
                  elemLog >>

\* dfu_abort_to_idle after SET_ADDRESS
UploadAbort ==
  /\ pc = "up_abort"
  /\ Issue(Req("ABORT", 0, 0, << >>))
  /\ \E ok \in BOOLEAN :
       IF ok THEN pc' = "up_abort_status" /\ UNCHANGED exit_status
       ELSE Errx("EX_IOERR", "Error sending dfu abort request")
  /\ UNCHANGED << last_erased_page, opts, args, ret, sc, el, ck, busyLeft, elemLog >>

UploadAbortStatus ==
  /\ pc = "up_abort_status"
  /\ Issue(Req("GETSTATUS", 0, 6, << >>))
  /\ \E r \in StatusReplies :
       IF r.ret # "OK"
       THEN Errx("EX_IOERR", "Error during abort get_status") /\ UNCHANGED busyLeft
       ELSE IF r.bState # "dfuIDLE"
       THEN /\ busyLeft > 0
            /\ busyLeft' = busyLeft - 1
            /\ UNCHANGED << pc, exit_status >>
       ELSE /\ pc' = "up_loop"
            /\ UNCHANGED << exit_status, busyLeft >>
  /\ UNCHANGED << last_erased_page, opts, args, ret, sc, el, ck, elemLog >>

\* the bytes one DFU_UPLOAD of wLength length may deliver: none, some, all
Delivered(length) == { 0, length } \cup { n \in { length - 1 } : n > 0 }

\* one round of while (1): the request, the bytes written to the file, the
\* test for the last block
UploadChunk ==
  /\ pc = "up_loop"
  /\ LET size == IF up.upload_limit - up.total_bytes < xfer_size
                 THEN up.upload_limit - up.total_bytes ELSE xfer_size
     IN
     /\ xfer_size' = size
     /\ Issue(Req("UPLOAD", Ushort(up.transaction), Ushort(size), << >>))
     /\ \E rc \in { -1 } \cup Delivered(Ushort(size)) :
          LET total_bytes == up.total_bytes + IF rc < 0 THEN 0 ELSE rc
              after == [ up EXCEPT !.transaction = up.transaction + 1, !.rc = rc,
                                   !.total_bytes = total_bytes ]
          IN
          /\ up' = after
          /\ IF rc < 0
             THEN pc' = "done" /\ ret' = rc /\ UNCHANGED exit_status
             ELSE IF rc < size \/ total_bytes >= up.upload_limit
             THEN pc' = "up_end" /\ ret' = 0 /\ UNCHANGED exit_status
             ELSE UNCHANGED << pc, ret, exit_status >>
  /\ UNCHANGED << last_erased_page, dfuse_address, dfuse_address_present, dfuse_force,
                  dfuse_leave, dfuse_unprotect, dfuse_mass_erase, dfuse_will_reset,
                  dfuse_length, dfuse_options, po, dif, file, driver, df, sc, el, ck,
                  busyLeft, elemLog >>

\* after the loop: dfu_abort_to_idle, then the leave request if asked for
UploadEnd ==
  /\ pc = "up_end"
  /\ Issue(Req("ABORT", 0, 0, << >>))
  /\ \E ok \in BOOLEAN :
       IF ok THEN pc' = "abort_status" /\ UNCHANGED exit_status
       ELSE Errx("EX_IOERR", "Error sending dfu abort request")
  /\ UNCHANGED << last_erased_page, opts, args, ret, sc, el, ck, busyLeft, elemLog >>

\* a segment that can be written and erased, not read
LayoutWriteOnly == << Seg(8, 23, 4, 6) >>

\* the lengths the option string may give: none, short ones, 0xFFFFFFFF (read
\* as an int: -1)
UploadLengths == { 0, 6, 20, -1 }
\* the transfer sizes: 8 where the limit is a few bytes, 4096 for all limits
UploadXferSizes == { 8, 4096 }

\* dfuse_do_upload is entered, the options parsed
InitUpload ==
  /\ last_erased_page = 1
  /\ exit_status = Running
  /\ ret = 0
  /\ sc = NoSc /\ el = NoEl /\ ck = NoCk /\ df = NoDf /\ up = NoUp /\ po = NoPo
  /\ lastReq = NoReq /\ prevReq = "NONE" /\ elemLog = << >>
  /\ DriverIdle
  /\ pc = "up_start"
  /\ dfuse_options = << >>
  /\ dfuse_length \in UploadLengths
  /\ dfuse_address_present \in BOOLEAN
  /\ dfuse_address \in IF dfuse_address_present THEN { 8, 20, 30 } ELSE { 0 }
  /\ dfuse_force \in BOOLEAN
  /\ dfuse_leave \in BOOLEAN
  /\ dfuse_unprotect = FALSE /\ dfuse_mass_erase = FALSE /\ dfuse_will_reset = FALSE
  /\ \E layout \in { LayoutFlash, LayoutWriteOnly }, q \in BOOLEAN :
       dif = Dif([ vendor |-> 4660, product |-> 22136, serial_name |-> "UNKNOWN" ],
                 q, layout)
  /\ file = [ name |-> FALSE, bcdDFU |-> BCD_DFU10, elements |-> << >> ]
  /\ xfer_size \in UploadXferSizes
  /\ UploadLimit(dfuse_length, dfuse_address_present, dif.mem_layout, dfuse_address)
       = DefaultUploadLimit => xfer_size = 4096
  /\ busyLeft = MaxElemBusy

NextUpload ==
  \/ UploadStart
  \/ SpecialCommandDownload
  \/ SpecialGetStatus
  \/ UploadAbort
  \/ UploadAbortStatus
  \/ UploadChunk
  \/ UploadEnd
  \/ AbortGetStatus
  \/ DoLeave
  \/ LeaveQuirkDownload
  \/ LeaveQuirkGetStatus
  \/ ChunkDownload
  \/ ChunkGetStatus

SpecUpload == InitUpload /\ [][NextUpload]_engine

Next ==
  \/ DoDnloadStart
  \/ Dispatch
  \/ SpecialCommandDownload
  \/ SpecialClearStatus
  \/ SpecialGetStatus
  \/ ElementEntry
  \/ EraseChunkHead
  \/ ErasePageLoop
  \/ ErasePageNext
  \/ EraseExtra
  \/ EraseChunkEnd
  \/ WriteHead
  \/ ChunkDownload
  \/ ChunkGetStatus
  \/ WriteCheck
  \/ ElementReturn
  \/ AfterFile
  \/ AbortGetStatus
  \/ DoLeave
  \/ LeaveQuirkDownload
  \/ LeaveQuirkGetStatus

Spec == Init /\ [][Next]_engine

\* one forced mass erase or read unprotect on its own, with room for the polls
\* the stuck check of dfuse_special_command counts
InitStuck ==
  /\ EngineIdle
  /\ DriverIdle
  /\ pc = "start"
  /\ dfuse_force = TRUE
  /\ dfuse_leave = FALSE
  /\ dfuse_unprotect \in BOOLEAN
  /\ dfuse_mass_erase = TRUE
  /\ dfuse_will_reset = FALSE
  /\ dfuse_address_present = FALSE
  /\ dfuse_address = 0
  /\ file = [ name |-> FALSE, bcdDFU |-> BCD_DFU10, elements |-> << >> ]
  /\ \E d \in Devices, q \in BOOLEAN : dif = Dif(d, q, LayoutFlash)
  /\ xfer_size = 4
  /\ busyLeft = n_timeouts_max + MaxBusy

NextStuck ==
  \/ DoDnloadStart
  \/ SpecialCommandDownload
  \/ SpecialGetStatus

SpecStuck == InitStuck /\ [][NextStuck]_engine

\* the same session with a device that may answer busy or error without end;
\* the program runs on: no step of it waits for anything but the device's reply
InitPersist ==
  /\ EngineIdle
  /\ DriverIdle
  /\ pc = "start"
  /\ dfuse_force = TRUE
  /\ dfuse_leave = FALSE
  /\ dfuse_unprotect \in BOOLEAN
  /\ dfuse_mass_erase = TRUE
  /\ dfuse_will_reset = FALSE
  /\ dfuse_address_present = FALSE
  /\ dfuse_address = 0
  /\ file = [ name |-> FALSE, bcdDFU |-> BCD_DFU10, elements |-> << >> ]
  /\ \E d \in Devices, q \in BOOLEAN : dif = Dif(d, q, LayoutFlash)
  /\ xfer_size = 4
  /\ busyLeft = Unbounded

SpecPersist == InitPersist /\ [][NextStuck]_engine /\ WF_engine(NextStuck)

\* the four bytes of a 32-bit value, given by its int reading, least byte first
LE4(x) ==
  LET low == IF x < 0 THEN x + INT_MAX + 1 ELSE x
      top == (low \div 16777216) + (IF x < 0 THEN 128 ELSE 0)
  IN << low % 256, (low \div 256) % 256, (low \div 65536) % 256, top >>

Fill(n, b) == [ i \in 1..n |-> b ]

\* the parts of a DfuSe container
DfuPrefixImage(signature, revision, bTargets) ==
  signature \o << revision >> \o LE4(0) \o << bTargets >>

TargetPrefixImage(signature, bAlternateSetting, dwNbElements) ==
  signature \o << bAlternateSetting >> \o LE4(0) \o Fill(255, 0) \o LE4(0)
    \o LE4(dwNbElements)

ElementImage(dwElementAddress, dwElementSize, stored) ==
  LE4(dwElementAddress) \o LE4(dwElementSize) \o Fill(stored, 170)

\* a loaded file: body between a prefix and a suffix that dfu_load_file measured
Loaded(prefix, body, suffix) ==
  [ name |-> TRUE, bcdDFU |-> BCD_DFUSE,
    size |-> [ total |-> prefix + Len(body) + suffix, prefix |-> prefix,
               suffix |-> suffix ],
    firmware |-> Fill(prefix, 0) \o body \o Fill(suffix, 255) ]

\* the element sizes the container files declare: fitting ones, one larger than
\* what is stored, and sizes of 2^31 and more
DeclaredSizes == { 0, 4, 6, -1, -8, INT_MIN }
Stored(size) == IF size < 0 THEN 0 ELSE IF size > 4 THEN 4 ELSE size

\* one target with two stored elements, declaring dwNbElements of them
OneTarget(alt, dwNbElements, s1, s2, extra) ==
  DfuPrefixImage(DfuSeSignature, 1, 1)
    \o TargetPrefixImage(TargetSignature, alt, dwNbElements)
    \o ElementImage(8, s1, Stored(s1)) \o ElementImage(14, s2, Stored(s2))
    \o Fill(extra, 0)

ContainerFiles ==
  { Loaded(0, OneTarget(alt, n, s1, s2, extra), 16) :
      alt \in { 0, 1 }, n \in { -1, 1, 2, 3 }, s1 \in DeclaredSizes,
      s2 \in DeclaredSizes, extra \in { 0, 2 } }
  \cup
  { Loaded(8, DfuPrefixImage(DfuSeSignature, 1, 2)
               \o TargetPrefixImage(TargetSignature, a1, 1) \o ElementImage(8, 4, 4)
               \o TargetPrefixImage(sig, a2, 1) \o ElementImage(16, 4, 4), 16) :
      sig \in { TargetSignature, Fill(6, 0) }, a1 \in { 0, 1, 2 }, a2 \in { 0, 1 } }
  \cup
  { Loaded(0, DfuPrefixImage(sig, rev, 0) \o Fill(stored, 0), 16) :
      sig \in { DfuSeSignature, Fill(5, 0) }, rev \in { 1, 2 }, stored \in { 0, 281, 282, 290 } }

\* the match collections: alternate setting 0 alone, alternate settings 0 and
\* 1 with different memory layouts, alternate setting 1 alone
Interface(altsetting, layout, next) ==
  [ vendor |-> 4660, product |-> 22136, serial_name |-> "UNKNOWN", quirk_leave |-> FALSE,
    mem_layout |-> layout, altsetting |-> altsetting, next |-> next ]

MatchCollections ==
  { Interface(0, LayoutFlash, << >>),
    Interface(0, LayoutFlash, << Interface(1, LayoutRam, << >>) >>),
    Interface(1, LayoutRam, << >>) }

\* dfuse_do_dfuse_dnload is entered with a loaded file
InitParse ==
  /\ EngineIdle
  /\ DriverIdle
  /\ pc = "df_start"
  /\ dfuse_force = FALSE
  /\ dfuse_mass_erase = FALSE
  /\ dfuse_leave = FALSE
  /\ dfuse_unprotect = FALSE
  /\ dfuse_will_reset = FALSE
  /\ dfuse_address_present = FALSE
  /\ dfuse_address = 0
  /\ file \in ContainerFiles
  /\ dif \in MatchCollections
  /\ xfer_size = 4
  /\ busyLeft = MaxElemBusy

NextParse ==
  \/ DfuseDnloadEntry
  \/ DfuseImage
  \/ DfuseElement
  \/ DfuseAdvance
  \/ SpecialCommandDownload
  \/ SpecialGetStatus
  \/ ElementEntry
  \/ EraseChunkHead
  \/ ErasePageLoop
  \/ ErasePageNext
  \/ EraseExtra
  \/ EraseChunkEnd
  \/ WriteHead
  \/ ChunkDownload
  \/ ChunkGetStatus
  \/ WriteCheck

SpecParse == InitParse /\ [][NextParse]_engine

\* devices that differ in where their functional descriptor is and in what
\* it declares: its bytes follow the configuration descriptor or the interface
\* descriptors, after another descriptor or not, or come from GET_DESCRIPTOR,
\* or there are none
DeclaredLengths == { 2, 6, 7, 8, 9 }
OtherDescriptors == { << >>, << 3, 36, 0 >> }
AltClasses == { << 254, 1 >>, << 254, 2 >>, << 255, 1 >> }

Described(where, bLength, other, c0, c1) ==
  LET d == Dev(5, 4660, 3, 2, 272, 0, 2, 64, 64, FALSE)
      bytes == other \o FuncDescriptor(bLength, FALSE, 64, 272)
  IN [ d EXCEPT
         !.extra = IF where = "config" THEN bytes ELSE << >>,
         !.altsetting = << Alt(c0[1], c0[2], IF where = "interface" THEN bytes ELSE other),
                           Alt(c1[1], c1[2], other) >>,
         !.get_descriptor = IF where = "request"
                            THEN [ ret |-> Len(bytes) - Len(other),
                                   data |-> FuncDescriptor(bLength, FALSE, 64, 272) ]
                            ELSE [ ret |-> -1, data |-> << >> ] ]

DescribedDevices ==
  { Described(where, bLength, other, c0, c1) :
      where \in { "config", "interface", "request", "nowhere" },
      bLength \in DeclaredLengths, other \in OtherDescriptors,
      c0 \in AltClasses, c1 \in AltClasses }

\* main is about to probe a bus with one such device on it
InitProbe ==
  /\ EngineIdle
  /\ pc = "probe"
  /\ dfuse_force = FALSE /\ dfuse_leave = FALSE /\ dfuse_unprotect = FALSE
  /\ dfuse_mass_erase = FALSE /\ dfuse_will_reset = FALSE
  /\ dfuse_address_present = FALSE /\ dfuse_address = 0
  /\ dif = Dif([ vendor |-> 0, product |-> 0, serial_name |-> "UNKNOWN" ], FALSE, << >>)
  /\ xfer_size = 0
  /\ busyLeft = 0
  /\ file \in { f \in MainFiles : f.bcdDFU = BCD_DFUSE }
  /\ bus \in { << d >> : d \in DescribedDevices }
  /\ dfu_root = << >>
  /\ mode = "DOWNLOAD"
  /\ opt_device = NoDevice
  /\ match_vendor = MatchFromFile(-1, mode, file.idVendor)
  /\ match_product = MatchFromFile(-1, mode, file.idProduct)
  /\ match_vendor_dfu = -1 /\ match_product_dfu = -1
  /\ match_iface_alt_index \in { -1, 1 }
  /\ opt_transfer_size = 0
  /\ transfer_size = opt_transfer_size
  /\ status = NoStatus
  /\ runtime_vendor = 0 /\ runtime_product = 0
  /\ usbOps = << >>

NextProbe ==
  \/ MainProbe

SpecProbe == InitProbe /\ [][NextProbe]_engine

\* one element of one page is erased and its address set, on a device that
\* may stay busy for more than n_polls_max polls
InitUnstick ==
  /\ EngineIdle
  /\ DriverIdle
  /\ pc = "start"
  /\ dfuse_force = FALSE
  /\ dfuse_mass_erase = FALSE
  /\ dfuse_leave = FALSE
  /\ dfuse_unprotect = FALSE
  /\ dfuse_will_reset = FALSE
  /\ dfuse_address_present = FALSE
  /\ dfuse_address = 0
  /\ file = [ name |-> TRUE, bcdDFU |-> BCD_DFUSE, elements |-> << Element(8, 4) >> ]
  /\ \E d \in Stm32h7Candidates : dif = Dif(d, FALSE, LayoutFlash)
  /\ xfer_size = 4
  /\ busyLeft = MaxBusy

NextUnstick ==
  \/ DoDnloadStart
  \/ Dispatch
  \/ SpecialCommandDownload
  \/ SpecialClearStatus
  \/ SpecialGetStatus
  \/ ElementEntry
  \/ EraseChunkHead
  \/ ErasePageLoop
  \/ ErasePageNext
  \/ EraseExtra
  \/ WriteHead

SpecUnstick == InitUnstick /\ [][NextUnstick]_engine

NextElem ==
  \/ DoDnloadStart
  \/ Dispatch
  \/ SpecialCommandDownload
  \/ SpecialGetStatus
  \/ ElementEntry
  \/ EraseChunkHead
  \/ ErasePageLoop
  \/ ErasePageNext
  \/ EraseExtra
  \/ EraseChunkEnd
  \/ WriteHead
  \/ ChunkDownload
  \/ ChunkGetStatus
  \/ WriteCheck
  \/ ElementReturn

SpecElem == InitElem /\ [][NextElem]_engine

NextMain ==
  \/ MainProbe
  \/ MainOpen
  \/ RtClaim
  \/ RtSetAlt
  \/ RtGetStatus
  \/ RtClear
  \/ RtDetach
  \/ RtReset
  \/ RtLeave
  \/ Reprobe
  \/ ReprobeCheck
  \/ Reopen
  \/ DfuStateClaim
  \/ SetAlt
  \/ StatusAgain
  \/ StClear
  \/ StAbort
  \/ StClearAgain
  \/ StGetAgain
  \/ Negotiate
  \/ ModeDispatch

SpecMain == InitMain /\ [][NextMain]_engine

\* main started on a bus whose only devices are in DFU mode already
InitStatus ==
  /\ InitMain
  /\ bus \in { << DfuSeDevice >>, << PlainDfuDevice >> }

NextStatus ==
  \/ MainProbe
  \/ MainOpen
  \/ DfuStateClaim
  \/ SetAlt
  \/ StatusAgain
  \/ StClear
  \/ StAbort
  \/ StClearAgain
  \/ StGetAgain
  \/ Negotiate
  \/ ModeDispatch

\* main is one thread and none of its calls blocks for ever: a step that
\* can be taken is taken
SpecStatus == InitStatus /\ [][NextStatus]_engine /\ WF_engine(NextStatus)

(* ------------------------------------------------------------------ *)
(* Properties                                                          *)
(* ------------------------------------------------------------------ *)

\* the segments of the layout that contain address a and have the type bit
InSegmentOfType(a, bit) ==
  \E i \in 1..Len(dif.mem_layout) :
    /\ dif.mem_layout[i].start <= a /\ a <= dif.mem_layout[i].end
    /\ (dif.mem_layout[i].memtype \div bit) % 2 = 1

\* a and b lie in the same page of the same segment
SamePage(a, b) ==
  \E i \in 1..Len(dif.mem_layout) :
    LET g == dif.mem_layout[i] IN
    /\ g.start <= a /\ a <= g.end
    /\ g.start <= b /\ b <= g.end
    /\ (a - g.start) \div g.pagesize = (b - g.start) \div g.pagesize

\* the addresses of the bytes of the current element
ElementBytes == { U(el.dwElementAddress + k) : k \in 0..(el.dwElementSize - 1) }

ErasedAddresses == { elemLog[i].addr : i \in { j \in DOMAIN elemLog :
                                                 elemLog[j].kind = "ERASE_PAGE" } }

\* C1: the request that follows a DFU_DNLOAD is DFU_GETSTATUS
C1_GetStatusFollowsDnload ==
  prevReq = "DNLOAD" => lastReq.req = "GETSTATUS"

\* a leave request on a QUIRK_DFUSE_LEAVE device was followed by its poll
C1_Witness ==
  /\ pc = "done" /\ dfuse_leave /\ dif.quirk_leave
  /\ prevReq = "DNLOAD" /\ lastReq.req = "GETSTATUS"

\* C2: when dfuse_dnload_element returns 0 and no mass erase was asked for,
\* every page of an erasable segment that holds a byte of the element was
\* sent an ERASE_PAGE during the call
C2_AllPagesErased ==
  (pc = "el_return" /\ ~dfuse_mass_erase) =>
    \A a \in ElementBytes :
      InSegmentOfType(a, DFUSE_ERASABLE) => \E e \in ErasedAddresses : SamePage(e, a)

\* C3: within one dfuse_dnload_element call no ERASE_PAGE follows a
\* SET_ADDRESS or a data DNLOAD
C3_EraseBeforeWrite ==
  \A i, j \in DOMAIN elemLog :
    (i < j /\ elemLog[i].kind \in { "SET_ADDRESS", "DATA" })
      => elemLog[j].kind # "ERASE_PAGE"

\* an element was erased and then written, in more than one chunk
C3_Witness ==
  /\ pc = "el_return"
  /\ \E i, j, k \in DOMAIN elemLog :
       /\ i < j /\ j < k
       /\ elemLog[i].kind = "ERASE_PAGE"
       /\ elemLog[j].kind = "DATA" /\ elemLog[k].kind = "DATA"

\* the last byte of the current element lies in no writeable segment
LastByteNotWriteable ==
  ~InSegmentOfType(U(el.dwElementAddress + el.dwElementSize - 1), DFUSE_WRITEABLE)

\* C4: without force, an element whose last byte is in no writeable segment
\* gets no further than the check: usage error, nothing sent for the element
C4_LastByteRefused ==
  (el.idx # 0 /\ ~dfuse_force /\ LastByteNotWriteable) =>
    /\ elemLog = << >>
    /\ pc \in { "el_entry", "exit" }
    /\ pc = "exit" => exit_status.code = "EX_USAGE"

\* an empty element at the start of the layout was refused
C4_Witness ==
  /\ pc = "exit" /\ exit_status.msg = "Last page is not writeable"
  /\ el.dwElementSize = 0 /\ ~dfuse_force
  /\ InSegmentOfType(el.dwElementAddress, DFUSE_WRITEABLE)

DataAddresses(log) == { log[i].addr : i \in { j \in DOMAIN log : log[j].kind = "DATA" } }
DataCount(log) == Cardinality({ j \in DOMAIN log : log[j].kind = "DATA" })

\* the DNLOAD of the last data chunk failed, or its poll ended with a status
\* that is not OK, or fewer bytes than the chunk were taken
ChunkFailed ==
  /\ ck.retpc = "write_check"
  /\ \/ ck.ret < 0
     \/ pc # "ck_getstatus" /\ ck.result # ck.size

\* C5: no chunk of an element is sent twice, and a chunk that failed ends the
\* session with an I/O error before anything else is sent
C5_NoRetry ==
  /\ DataCount(elemLog) = Cardinality(DataAddresses(elemLog))
  /\ ChunkFailed => /\ pc \in { "write_check", "exit" }
                    /\ pc = "exit" => exit_status.code = "EX_IOERR"

\* the poll of a chunk ended with a status that is not OK and the session ended
C5_Witness ==
  /\ pc = "exit" /\ ck.retpc = "write_check" /\ ck.ret = ck.size /\ ck.result = -1
  /\ DataCount(elemLog) = 2

\* C6: ERASE_PAGE goes out only for an address in an erasable segment, and
\* then last_erased_page is the start of that address's page in its segment;
\* for any other address the command ends with a usage error, nothing sent
C6_ErasePageChecked ==
  /\ \A a \in ErasedAddresses : InSegmentOfType(a, DFUSE_ERASABLE)
  /\ (sc.command = "ERASE_PAGE" /\ ~InSegmentOfType(sc.address, DFUSE_ERASABLE)) =>
       /\ pc \in { "sc_dnload", "exit" }
       /\ pc = "exit" => exit_status.code = "EX_USAGE"
  /\ (sc.command = "ERASE_PAGE" /\ pc \in { "sc_clear", "sc_getstatus" }) =>
       /\ elemLog[Len(elemLog)] = Logged("ERASE_PAGE", sc.address, 0)
       /\ SamePage(last_erased_page, sc.address)
       /\ \A b \in 0..(last_erased_page - 1) : ~SamePage(b, sc.address)

\* an erase was sent, and a later one reached a segment that is not erasable
C6_Witness ==
  /\ pc = "exit" /\ exit_status.msg = "Page can not be erased"
  /\ ErasedAddresses # {}
  /\ InSegmentOfType(sc.address, DFUSE_WRITEABLE)

\* C7: unprotect or mass-erase without force is a usage error and nothing
\* is sent to the device
C7_DestructiveNeedsForce ==
  ((dfuse_unprotect \/ dfuse_mass_erase) /\ ~dfuse_force) =>
    /\ lastReq = NoReq
    /\ pc \in { "start", "exit" }
    /\ pc = "exit" => exit_status.code = "EX_USAGE"

\* mass-erase alone, without force, was refused
C7_Witness ==
  /\ pc = "exit" /\ dfuse_mass_erase /\ ~dfuse_unprotect /\ ~dfuse_force
  /\ file.name

Max2(a, b) == IF a > b THEN a ELSE b
Min2(a, b) == IF a < b THEN a ELSE b

\* the size the user gave if it is not zero, else the device's wTransferSize
WantedTransferSize ==
  IF opt_transfer_size # 0 THEN opt_transfer_size ELSE dfu_root[1].wTransferSize

\* max(bMaxPacketSize0, min(s, 4096)), for s read as an int and, when that is
\* negative, for s read as an unsigned int
ClampedSizes(s, bMaxPacketSize0) ==
  { Max2(bMaxPacketSize0, Min2(s, 4096)) }
  \cup (IF s < 0 THEN { Max2(bMaxPacketSize0, 4096) } ELSE {})

\* C8: the transfer size handed to the upload or download routine is
\* max(bMaxPacketSize0, min(s, 4096)), and nothing is handed over when neither
\* the user nor the device gives a size
C8_TransferSizeClamped ==
  /\ pc = "handed" =>
       xfer_size \in ClampedSizes(WantedTransferSize, dfu_root[1].bMaxPacketSize0)
  /\ pc \in { "mode_dispatch", "handed" } => WantedTransferSize # 0
  /\ (pc = "exit" /\ exit_status.msg = "Transfer size must be specified") =>
       /\ exit_status.code = "EX_USAGE"
       /\ opt_transfer_size = 0 /\ dfu_root[1].wTransferSize = 0

\* the re-probe after the detach has been made: the run-time IDs are the
\* impossible ones and it was not the -d argument that made them so (with
\* such an argument no run-time device is found and nothing is detached)
Reprobed ==
  /\ match_vendor = IMPOSSIBLE_ID /\ match_product = IMPOSSIBLE_ID
  /\ CharAt(opt_device, 1) \notin { ",", "-" }

\* C9: after the re-probe main goes on only with exactly one interface; with
\* none or several it ends with an error and the DFU_DETACH stays the last
\* class request
C9_ExactlyOneSurvivor ==
  /\ (Reprobed /\ pc \notin { "reprobe_check", "exit" }) => Len(dfu_root) = 1
  /\ (Reprobed /\ pc = "exit" /\ Len(dfu_root) # 1) =>
       /\ exit_status.code = "EX_IOERR"
       /\ exit_status.msg = IF dfu_root = << >>
                            THEN "Lost device after RESET?"
                            ELSE "More than one DFU capable USB device found!"
       /\ lastReq.req = "DETACH"

\* the device came back in DFU mode with two alternate settings, none
\* selected with -a, and main ended with the error
C9_Witness ==
  /\ pc = "exit"
  /\ exit_status.msg = "More than one DFU capable USB device found!"
  /\ Len(dfu_root) = 2 /\ dfuse_multiple_alt(dfu_root)
  /\ lastReq.req = "DETACH"

\* C10: every interface the re-probe lists is in DFU mode, and so is the
\* device that is opened again
C10_ReprobeFindsDfuModeOnly ==
  (\/ pc \in { "reprobe_check", "reopen" }
   \/ pc = "exit" /\ exit_status.msg \in { "More than one DFU capable USB device found!",
                                           "Cannot open device" })
    => \A i \in DOMAIN dfu_root : dfu_root[i].DFU_IFF_DFU

\* the device is opened again while a run-time device is on the bus
C10_Witness ==
  /\ pc = "reopen" /\ Len(dfu_root) = 1 /\ dfu_root[1].DFU_IFF_DFU
  /\ \E k \in DOMAIN bus : ~DfuMode(bus[k])

\* the calls of libusb_reset_device so far
ResetCalls == Cardinality({ i \in DOMAIN usbOps : usbOps[i].op = "reset_device" })

RunTimeStates == { "appIDLE", "appDETACH" }

\* C11: in run-time entry a device seen in appIDLE or appDETACH is sent
\* DFU_DETACH with timeout 1000; with WILL_DETACH no reset is made, without it
\* exactly one, after the detach, and NOT_FOUND counts as success; in detach
\* mode main then ends with success and does not probe again
C11_DetachThenReset ==
  /\ pc = "rt_detach" => status.bState \in RunTimeStates
  /\ (pc = "rt_clear" \/ (pc = "dfustate" /\ lastReq.req = "GETSTATUS"))
       => status.bState \notin RunTimeStates
  /\ pc \in { "rt_reset", "rt_leave" } => lastReq = Req("DETACH", 1000, 0, << >>)
  /\ pc = "rt_reset" => ResetCalls = 0 /\ ~dfu_root[1].will_detach
  /\ pc = "rt_leave" =>
       IF dfu_root[1].will_detach
       THEN ResetCalls = 0
       ELSE /\ ResetCalls = 1
            /\ usbOps[Len(usbOps)].op = "reset_device"
            /\ usbOps[Len(usbOps)].ok \in { "OK", "NOT_FOUND" }
  /\ ResetCalls <= 1
  /\ (pc = "exit" /\ exit_status.msg = "error resetting after detach: %s")
       => usbOps[Len(usbOps)] = UsbOp("reset_device", 0, "IO")
  /\ (mode = "DETACH" /\ lastReq.req = "DETACH"
        /\ pc \notin { "rt_reset", "rt_leave", "main_done" })
       => /\ pc = "exit"
          /\ ~Reprobed
          /\ \/ exit_status.code = "EX_OK" /\ dfu_root = << >>
             \/ exit_status.msg = "error resetting after detach: %s"

\* detach mode: the reset after the detach found no device, main ended well
C11_Witness ==
  /\ pc = "exit" /\ mode = "DETACH" /\ exit_status.code = "EX_OK"
  /\ lastReq = Req("DETACH", 1000, 0, << >>)
  /\ usbOps # << >> /\ usbOps[Len(usbOps)] = UsbOp("reset_device", 0, "NOT_FOUND")

\* C12: in the status check of the DFU-mode entry a device that keeps
\* reporting dfuERROR does not make main send CLRSTATUS again and again: from
\* some point on main is no longer about to clear the error
C12_ErrorLoopEnds ==
  <>[](status.bState = "dfuERROR") => <>[](pc # "st_clear")

\* C13: in the poll loop of a special command a stalled DFU_GETSTATUS is
\* tolerated (counted, the last poll timeout kept) exactly when the last known
\* poll timeout is nonzero and fewer than n_stalls_max stalls were tolerated
\* before; every other failed transfer ends the run with an I/O error
C13_StallTolerance ==
  [][ pc = "sc_getstatus" /\ pc' # sc.retpc =>
        /\ sc'.n_stalls = sc.n_stalls + 1
             <=> (sc'.ret = "PIPE" /\ sc.poll_timeout # 0 /\ sc.n_stalls < n_stalls_max)
        /\ sc'.n_stalls = sc.n_stalls + 1 => sc'.poll_timeout = sc.poll_timeout
        /\ sc'.n_stalls # sc.n_stalls + 1 /\ sc'.ret # "OK"
             => /\ pc' = "exit"
                /\ exit_status'.code = "EX_IOERR"
                /\ exit_status'.msg = "Error during special command get_status"
    ]_engine

\* a fourth stall, after three tolerated ones, has ended the run
C13_Witness ==
  /\ pc = "exit"
  /\ exit_status.msg = "Error during special command get_status"
  /\ sc.ret = "PIPE"
  /\ sc.poll_timeout # 0
  /\ sc.n_stalls = n_stalls_max

ContainerBytes == file.size.total - file.size.prefix - file.size.suffix

DfuseParsing == pc \notin { "df_start" } /\ df # NoDf

\* C15: while a DfuSe container is parsed the bytes consumed and the bytes
\* remaining add up to the size of the container and the remainder is never
\* negative; a parse that ends with bytes left over returns 0
C15_ConsumedPlusRemaining ==
  DfuseParsing =>
    /\ df.rem >= 0
    /\ (df.data - file.size.prefix) + df.rem = ContainerBytes
    /\ df.leftover => pc # "exit" /\ ret = 0

\* C16: whatever 32-bit size an element header declares, an element whose
\* size, as an unsigned number, exceeds the bytes that remain is rejected with
\* a data error, and no step of the parse lets the remaining count grow or the
\* read position go back or pass the end of the container
C16_ElementSizeChecked ==
  [][ pc # "df_start" =>
        /\ df'.rem <= df.rem
        /\ df'.data >= df.data
        /\ df'.data - file.size.prefix <= ContainerBytes
        /\ pc = "df_element" /\ df'.data # df.data
             /\ (df'.dwElementSize < 0 \/ df'.dwElementSize > df'.rem)
             => pc' = "exit" /\ exit_status'.code = "EX_DATAERR"
    ]_engine

\* the device an entry of dfu_root was made from
DeviceOf(entry) == CHOOSE d \in { bus[k] : k \in DOMAIN bus } : d.dev = entry.dev

\* C17: every entry of the list discovery builds comes from an alternate
\* setting of class 0xfe, subclass 1, and carries a functional descriptor
\* whose bLength is at least 7, wherever the descriptor was taken from
C17_EntriesAreDfuWithDescriptor ==
  \A i \in DOMAIN dfu_root :
    /\ DfuClass(DeviceOf(dfu_root[i]).altsetting[dfu_root[i].altsetting + 1])
    /\ dfu_root[i].bLength >= 7

\* the offsets of the chunks of the current element
ChunkOffsets == { q \in 0..(ToInt(el.dwElementSize) - 1) : q % xfer_size = 0 }
FirstOf(q) == U(el.dwElementAddress + q)
LastOf(q) == U(FirstOf(q) + ChunkSize(q, el.dwElementSize, xfer_size) - 1)

\* the page an address lies in, by the page size of its own segment
PageOf(a) ==
  PageStart(a, dif.mem_layout[find_segment(dif.mem_layout, a)].pagesize)

\* the chunk at offset q lies in one erasable segment and covers parts of
\* two adjacent pages of it
CrossesOneBoundary(q) ==
  LET i == find_segment(dif.mem_layout, FirstOf(q)) IN
  /\ FirstOf(q) <= LastOf(q)
  /\ i # 0
  /\ i = find_segment(dif.mem_layout, LastOf(q))
  /\ HasType(dif.mem_layout, i, DFUSE_ERASABLE)
  /\ PageOf(LastOf(q)) = PageOf(FirstOf(q)) + dif.mem_layout[i].pagesize

\* the ERASE_PAGE commands of the chunk at offset q, as places in elemLog
ErasesOf(q) ==
  { j \in DOMAIN elemLog : /\ elemLog[j].kind = "ERASE_PAGE"
                           /\ FirstOf(q) <= elemLog[j].addr
                           /\ elemLog[j].addr <= LastOf(q) }

\* the ERASE_PAGE commands sent before those of the chunk at offset q
ErasesBefore(q) ==
  { j \in DOMAIN elemLog : /\ elemLog[j].kind = "ERASE_PAGE"
                           /\ elemLog[j].addr < FirstOf(q) }

ErasePassDone == pc = "el_return" /\ ~dfuse_mass_erase

\* C18 as stated: a chunk that crosses one page boundary in an erasable
\* segment gets exactly two ERASE_PAGE commands, one for each page
C18_TwoErasesPerCrossing ==
  ErasePassDone =>
    \A q \in ChunkOffsets :
      CrossesOneBoundary(q) =>
        /\ Cardinality(ErasesOf(q)) = 2
        /\ { PageOf(elemLog[j].addr) : j \in ErasesOf(q) }
             = { PageOf(FirstOf(q)), PageOf(LastOf(q)) }

\* C18, amended: such a chunk gets one ERASE_PAGE for its second page, and
\* one for its first page unless that page is the one erased last, by the
\* ERASE_PAGE before the chunk or before the element; no page gets two
C18_ErasesPerCrossing ==
  ErasePassDone =>
    \A q \in ChunkOffsets :
      CrossesOneBoundary(q) =>
        LET pages == { PageOf(elemLog[j].addr) : j \in ErasesOf(q) }
            before == ErasesBefore(q)
            latest == CHOOSE j \in before : \A k \in before : k <= j
        IN /\ pages \subseteq { PageOf(FirstOf(q)), PageOf(LastOf(q)) }
           /\ Cardinality(ErasesOf(q)) = Cardinality(pages)
           /\ PageOf(LastOf(q)) \in pages
           /\ before # {} =>
                (PageOf(FirstOf(q)) \in pages
                   <=> PageOf(elemLog[latest].addr) # PageOf(FirstOf(q)))

\* a chunk that crosses a page boundary got one ERASE_PAGE only, its first
\* page being the second page of the chunk before
C18_Witness ==
  /\ ErasePassDone
  /\ \E q \in ChunkOffsets :
       /\ CrossesOneBoundary(q)
       /\ Cardinality(ErasesOf(q)) = 1
       /\ ErasesBefore(q) # {}

DfuModeEntries == { i \in DOMAIN dfu_root : dfu_root[i].DFU_IFF_DFU }
RunTimeEntries == { i \in DOMAIN dfu_root : ~dfu_root[i].DFU_IFF_DFU }

\* the second shape of -d: both pairs given
TwoPairs == VP_1234_0001 \o << "," >> \o VP_0483_df11

\* -d Vrun:Prun,Vdfu:Pdfu: DFU-mode entries carry the second pair, run-time
\* entries the first
SecondShapeMatched ==
  opt_device = TwoPairs =>
    /\ \A i \in DfuModeEntries :
         dfu_root[i].vendor = 1155 /\ dfu_root[i].product = 57105
    /\ \A i \in RunTimeEntries :
         dfu_root[i].vendor = 4660 /\ dfu_root[i].product = 1

\* C20: with -d 1234:0001 every entry discovery leaves, run-time or DFU mode,
\* is 1234:0001; with -d 1234:0001,0483:df11 the DFU-mode entries are
\* 0483:df11 and the run-time entries 1234:0001
C20_FilterShapes ==
  /\ opt_device = VP_1234_0001 =>
       \A i \in DOMAIN dfu_root :
         dfu_root[i].vendor = 4660 /\ dfu_root[i].product = 1
  /\ SecondShapeMatched

\* the serial names among Devices that begin with "200364500000"
Stm32h7SerialPrefixed == { "200364500000", "2003645000001A2B" }

\* ERASE_PAGE on 0483:df11 with a serial name that begins with "200364500000"
Stm32h7ErasePage ==
  /\ sc.command = "ERASE_PAGE"
  /\ dif.vendor = 1155 /\ dif.product = 57105
  /\ dif.serial_name \in Stm32h7SerialPrefixed

\* C21: when a poll of a special command leaves the loop running, CLRSTATUS
\* comes before the next GETSTATUS exactly when the command is ERASE_PAGE, the
\* device is 0483:df11 with a serial name beginning with "200364500000" and
\* more than 4 polls have been made; the loop then goes on polling; no
\* CLRSTATUS follows the command download itself
C21_Stm32h7Unstick ==
  [][ /\ (pc = "sc_getstatus" /\ pc' \in { "sc_clear", "sc_getstatus" })
           => (pc' = "sc_clear" <=> (Stm32h7ErasePage /\ sc'.n_polls > n_polls_max))
      /\ pc = "sc_dnload" => pc' # "sc_clear"
      /\ pc = "sc_clear" => pc' = "sc_getstatus" /\ lastReq'.req = "CLRSTATUS"
      /\ (pc \in { "sc_dnload", "sc_getstatus" }) => lastReq'.req # "CLRSTATUS"
    ]_engine

\* the 32-bit value the bytes 2..5 of a payload spell, least significant first
AddressIn(data) == data[2] + 256 * data[3] + 65536 * data[4] + 16777216 * data[5]

\* the payload of a special command as the claim words it
PayloadShape(command, address, data) ==
  CASE command = "SET_ADDRESS" ->
         Len(data) = 5 /\ data[1] = 33 /\ AddressIn(data) = address
    [] command = "ERASE_PAGE" ->
         Len(data) = 5 /\ data[1] = 65 /\ AddressIn(data) = address
    [] command = "MASS_ERASE" -> data = << 65 >>
    [] command = "READ_UNPROTECT" -> data = << 146 >>

\* C22: the request a special command sends is one DFU_DNLOAD with wValue 0,
\* its length that of the payload, the payload 0x21 or 0x41 with the address
\* least significant byte first, or the single byte 0x41 or 0x92; the polls
\* that follow send no further DFU_DNLOAD
C22_SpecialCommandPayload ==
  [][ /\ (pc = "sc_dnload" /\ lastReq' # lastReq) =>
           /\ lastReq'.req = "DNLOAD" /\ lastReq'.wValue = 0
           /\ lastReq'.len = Len(lastReq'.data)
           /\ \A i \in DOMAIN lastReq'.data : lastReq'.data[i] \in 0..255
           /\ PayloadShape(sc.command, sc.address, lastReq'.data)
      /\ (pc = "sc_dnload" /\ pc' # "exit") => lastReq'.req = "DNLOAD"
      /\ pc \in { "sc_getstatus", "sc_clear" } => lastReq'.req # "DNLOAD"
    ]_engine

\* a page erase of a page not at address 0 has just been sent
C22_Witness ==
  /\ pc = "sc_getstatus" /\ sc.command = "ERASE_PAGE" /\ sc.n_polls = 0
  /\ sc.address > 0
  /\ lastReq = Req("DNLOAD", 0, 5, << 65, sc.address, 0, 0, 0 >>)

IsData(entry) == entry.kind = "DATA"

\* the data chunks of the current element, in the order sent
DataEntries == SelectSeq(elemLog, IsData)

RECURSIVE SumLen(_)
SumLen(entries) ==
  IF entries = << >> THEN 0 ELSE entries[1].len + SumLen(Tail(entries))

\* every data chunk comes right after the SET_ADDRESS of its own address
SetAddressBeforeData ==
  \A i \in DOMAIN elemLog :
    IsData(elemLog[i]) =>
      i > 1 /\ elemLog[i - 1] = Logged("SET_ADDRESS", elemLog[i].addr, 0)

\* the chunks start at the element address, follow one another without a gap
\* and are no longer than xfer_size
ChunksContiguous ==
  \A k \in DOMAIN DataEntries :
    /\ DataEntries[k].addr
         = U(el.dwElementAddress + SumLen(SubSeq(DataEntries, 1, k - 1)))
    /\ DataEntries[k].len <= xfer_size

\* the request of a data chunk carries transaction number 2 and its length
TransactionTwo ==
  (elemLog # << >> /\ IsData(elemLog[Len(elemLog)]) /\ lastReq.req = "DNLOAD") =>
    lastReq.wValue = 2 /\ lastReq.len = elemLog[Len(elemLog)].len

\* C23: in the write pass every data DNLOAD follows the SET_ADDRESS of element
\* address + chunk offset with no other data DNLOAD between, carries
\* transaction number 2, is at most xfer_size long and continues where the
\* last one ended; when the element is done the lengths sum to its size
C23_WritePass ==
  /\ SetAddressBeforeData
  /\ ChunksContiguous
  /\ TransactionTwo
  /\ (pc = "el_return" /\ el.idx # 0) => SumLen(DataEntries) = el.dwElementSize

\* C24: with mass erase asked for no ERASE_PAGE goes out while elements are
\* written, and an ERASE_PAGE is only ever started for a chunk whose first
\* address lies in an erasable segment of the layout
C24_NoEraseWhenNotWanted ==
  /\ dfuse_mass_erase => (ErasedAddresses = {} /\ sc.command # "ERASE_PAGE")
  /\ sc.command = "ERASE_PAGE" => InSegmentOfType(ChunkAddress, DFUSE_ERASABLE)
  /\ pc \in { "erase_pages", "erase_next", "erase_extra", "erase_chunk_end" }
       => ~dfuse_mass_erase /\ InSegmentOfType(ChunkAddress, DFUSE_ERASABLE)

\* after a mass erase an element in erasable flash was written, no page erased
C24_Witness ==
  /\ pc = "el_return" /\ el.idx # 0 /\ dfuse_mass_erase
  /\ DataEntries # << >> /\ ErasedAddresses = {}
  /\ \A a \in ElementBytes : InSegmentOfType(a, DFUSE_ERASABLE)

\* C25: the poll of a READ_UNPROTECT is always the first one of the command
\* and the last: after it the command has returned, or the session has ended
\* because the poll failed or reported a state other than dfuDNBUSY; no
\* CLRSTATUS is sent for the command
C25_UnprotectPollsOnce ==
  [][ sc.command = "READ_UNPROTECT" =>
        /\ pc # "sc_clear" /\ lastReq'.req # "CLRSTATUS"
        /\ pc = "sc_getstatus" =>
             /\ sc.n_polls = 0 /\ prevReq' = "DNLOAD" /\ lastReq'.req = "GETSTATUS"
             /\ \/ pc' = sc.retpc /\ sc' = NoSc
                \/ /\ pc' = "exit"
                   /\ exit_status'.msg \in { "Error during special command get_status",
                                              "Wrong state after command download" }
    ]_engine

\* the read unprotect has returned after its one poll
C25_Witness ==
  /\ pc = "done" /\ dfuse_unprotect /\ dfuse_force /\ sc = NoSc
  /\ prevReq = "DNLOAD" /\ lastReq = Req("GETSTATUS", 0, 6, << >>)

\* a poll of a special command was answered and the loop goes on after the sleep
PolledOn == /\ pc = "sc_getstatus" /\ pc' \in { "sc_getstatus", "sc_clear" }
            /\ sc'.ret = "OK"

\* C26 as stated: in a MASS_ERASE every answered poll that reports 100 ms is
\* followed by a sleep of 35000 ms; any other command, and any other reported
\* timeout, by a sleep of the reported time
C26_MassEraseSleepsLong ==
  [][ PolledOn =>
        sc'.poll_timeout = IF sc.command = "MASS_ERASE" /\ sc'.bwPollTimeout = 100
                           THEN 35000 ELSE sc'.bwPollTimeout ]_engine

\* C26, amended: only the first poll of a MASS_ERASE that reports 100 ms is
\* followed by a sleep of 35000 ms; a later poll of a MASS_ERASE, any other
\* command and any other reported timeout, by a sleep of the reported time
C26_FirstPollSleepsLong ==
  [][ PolledOn =>
        sc'.poll_timeout = IF /\ sc.command = "MASS_ERASE" /\ sc.n_polls = 0
                              /\ sc'.bwPollTimeout = 100
                           THEN 35000 ELSE sc'.bwPollTimeout ]_engine

\* the first poll of a MASS_ERASE reported 100 ms and 35000 ms were slept
C26_Witness ==
  /\ sc.command = "MASS_ERASE" /\ sc.n_polls = 1 /\ pc = "sc_getstatus"
  /\ sc.bwPollTimeout = 100 /\ sc.poll_timeout = 35000

\* the first poll of a special command
FirstPoll == pc = "sc_getstatus" /\ sc.n_polls = 0

\* C27: when the first poll of a special command is answered with a state
\* other than dfuDNBUSY the session ends with the protocol error "Wrong state
\* after command", the poll being the last request; the command goes on after
\* its first poll only if that reported dfuDNBUSY
C27_WrongStateAfterCommand ==
  [][ /\ (FirstPoll /\ pc' = "exit" /\ sc'.ret = "OK" /\ sc'.bState # "dfuDNBUSY") =>
           /\ exit_status'.code = "EX_PROTOCOL"
           /\ exit_status'.msg = "Wrong state after command download"
           /\ lastReq'.req = "GETSTATUS" /\ prevReq' = "DNLOAD"
      /\ (FirstPoll /\ pc' # "exit") =>
           \/ sc'.bState = "dfuDNBUSY" /\ sc'.ret = "OK"
           \/ sc.command = "READ_UNPROTECT" /\ sc' = NoSc
      /\ pc = "exit" => lastReq' = lastReq
    ]_engine

\* a SET_ADDRESS was answered with dfuDNLOAD_IDLE at its first poll
C27_Witness ==
  /\ pc = "exit" /\ exit_status.msg = "Wrong state after command download"
  /\ sc.command = "SET_ADDRESS" /\ sc.n_polls = 0
  /\ sc.ret = "OK" /\ sc.bState = "dfuDNLOAD_IDLE"
  /\ lastReq.req = "GETSTATUS" /\ prevReq = "DNLOAD"

\* the states the claim names as ending the poll loop of a data chunk
StopsPolling(bState) ==
  \/ bState \in { "dfuDNLOAD_IDLE", "dfuERROR", "dfuMANIFEST" }
  \/ dfuse_will_reset /\ bState = "dfuDNBUSY"

\* C28: each round of the poll loop of dfuse_dnload_chunk sends one GETSTATUS
\* and sleeps the reported bwPollTimeout; the loop goes on when the reported
\* state is none of dfuDNLOAD_IDLE, dfuERROR, dfuMANIFEST and, with will-reset,
\* dfuDNBUSY, and ends when it is one of them; the result is then the number
\* of bytes sent when bStatus is OK and -1 otherwise
C28_ChunkPollLoop ==
  [][ pc = "ck_getstatus" =>
        /\ lastReq'.req = "GETSTATUS"
        /\ pc' = "exit" => exit_status'.msg = "Error during download get_status"
        /\ pc' = "ck_getstatus" =>
             ~StopsPolling(ck'.dst.bState) /\ ck'.slept_reported
        /\ pc' \notin { "ck_getstatus", "exit" } =>
             /\ pc' = ck.retpc
             /\ StopsPolling(ck'.dst.bState) /\ ck'.slept_reported
             /\ ck'.result = IF ck'.dst.bStatus = "OK" THEN ck.bytes_sent ELSE -1
    ]_engine

\* without will-reset a chunk was polled through dfuDNBUSY and its poll loop
\* ended in dfuDNLOAD_IDLE with the bytes counted
C28_Witness ==
  /\ pc = "write_check" /\ ~dfuse_will_reset /\ busyLeft < MaxBusy
  /\ ck.dst.bState = "dfuDNLOAD_IDLE" /\ ck.dst.bStatus = "OK"
  /\ ck.result = ck.size /\ ck.size > 0 /\ lastReq.req = "GETSTATUS"

\* C29: in run-time entry a GETSTATUS that failed lets main go on only when
\* the failure was a pipe stall, and then with appIDLE, status OK and poll
\* timeout 0 and on to DFU_DETACH; any other failure ends main with an I/O
\* error, the GETSTATUS being the last class request
C29_StallMeansAppIdle ==
  [][ /\ pc = "rt_getstatus" =>
           /\ lastReq'.req = "GETSTATUS"
           /\ (pc' # "exit" /\ status'.ret # "OK") =>
                /\ status' = [ ret |-> "PIPE", bState |-> "appIDLE", bStatus |-> "OK",
                               bwPollTimeout |-> 0 ]
                /\ pc' = "rt_detach"
           /\ pc' = "exit" =>
                /\ exit_status'.code = "EX_IOERR"
                /\ exit_status'.msg = "error get_status: %s"
      /\ pc = "rt_detach" => lastReq'.req = "DETACH"
      /\ pc = "exit" => lastReq' = lastReq
    ]_engine

\* the device stalled the GETSTATUS and was sent DFU_DETACH
C29_Witness ==
  /\ status = [ ret |-> "PIPE", bState |-> "appIDLE", bStatus |-> "OK", bwPollTimeout |-> 0 ]
  /\ lastReq.req = "DETACH" /\ prevReq = "GETSTATUS"

\* the calls of libusb_set_interface_alt_setting so far
SetInterfaceCalls ==
  { i \in DOMAIN usbOps : usbOps[i].op = "set_interface_alt_setting" }

\* the selected interface has a number above 0 or more than one alternate
\* setting
NeedsSetInterface ==
  dfu_root[1].interface > 0 \/ DeviceOf(dfu_root[1]).num_altsetting > 1

\* C30: in run-time entry SET_INTERFACE(alt=0) is about to be sent only for
\* an interface with a number above 0 or with more than one alternate setting;
\* for interface 0 with one alternate setting GETSTATUS comes with no
\* SET_INTERFACE before it
C30_SetInterfaceOnlyWhenNeeded ==
  /\ pc = "rt_setalt" => NeedsSetInterface
  /\ (pc = "rt_getstatus" /\ ~NeedsSetInterface) => SetInterfaceCalls = {}


\* the first n bytes of the container
Payload(n) == SubSeq(file.firmware, file.size.prefix + 1, file.size.prefix + n)

\* what dfuse_do_dfuse_dnload must not accept
BadContainer ==
  \/ ContainerBytes < 293
  \/ Payload(5) # << 68, 102, 117, 83, 101 >>        \* "DfuSe"
  \/ Payload(6)[6] # 1

\* C31: a container of fewer than 293 bytes, or that does not begin with
\* "DfuSe", or whose version byte is not 1, ends the run with a data error as
\* the first thing done for the file: no alternate setting was selected, no
\* class request sent
C31_BadContainerRejected ==
  (BadContainer /\ pc # "df_start") =>
    /\ pc = "exit" /\ exit_status.code = "EX_DATAERR"
    /\ usbOps = << >> /\ lastReq = NoReq /\ elemLog = << >>

\* a container of sufficient size and with the signature is refused for its version
C31_Witness ==
  /\ ContainerBytes >= 293 /\ Payload(5) = DfuSeSignature /\ Payload(6)[6] = 2
  /\ pc = "exit" /\ exit_status.code = "EX_DATAERR"
  /\ exit_status.msg = "DFU format revision not supported"
\* the unsigned 32-bit number in the four bytes of the file from offset pos on
QuadAt(pos) ==
  file.firmware[pos + 1] + file.firmware[pos + 2] * 256 + file.firmware[pos + 3] * 65536
    + file.firmware[pos + 4] * 16777216

\* the offset behind n elements whose first header is at pos
RECURSIVE ElementsEnd(_, _)
ElementsEnd(pos, n) ==
  IF n = 0 THEN pos
  ELSE ElementsEnd(pos + sizeof_elementheader + QuadAt(pos + 4), n - 1)

\* the offset of the prefix of target k, as the layout of the container gives it
RECURSIVE TargetStart(_)
TargetStart(k) ==
  IF k = 1 THEN file.size.prefix + sizeof_dfuprefix
  ELSE LET before == TargetStart(k - 1)
       IN ElementsEnd(before + sizeof_targetprefix,
                      QuadAt(before + sizeof_targetprefix - 4))

\* the steps of dfuse_do_dfuse_dnload itself
ParserSteps == { "df_start", "df_image", "df_element", "el_return", "after_file", "exit" }

\* an element is written: through the interface that has the alternate setting
\* of its target, selected by the last SET_INTERFACE
ThroughMatchingAlt ==
  pc \notin ParserSteps =>
    /\ df.adif # 0
    /\ Chain[df.adif].altsetting = df.bAlternateSetting
    /\ usbOps # << >>
    /\ usbOps[Len(usbOps)] = UsbOp("set_interface_alt_setting", df.bAlternateSetting, "OK")
    /\ \A i \in DOMAIN elemLog :
         elemLog[i].kind = "ERASE_PAGE" =>
           HasType(Chain[df.adif].mem_layout,
                   find_segment(Chain[df.adif].mem_layout, elemLog[i].addr), DFUSE_ERASABLE)

\* the prefix of each target after the first is read where the elements of the
\* target before it end
NextTargetAtOffset ==
  (pc = "df_image" /\ 1 < df.image /\ df.image <= df.bTargets) =>
    df.data = TargetStart(df.image)

\* C32: an element is written only through the interface of the match
\* collection that has the target's alternate setting, after that setting was
\* selected; the target prefix of a target that no interface matches, and its
\* elements, are read without any call to the device, and the next target is
\* read where those elements end
C32_TargetsByAltSetting ==
  [][ /\ ThroughMatchingAlt'
      /\ NextTargetAtOffset'
      /\ (pc \in { "df_image", "df_element", "el_return" } /\ df'.adif = 0 /\ pc' # "exit")
           => /\ UNCHANGED << lastReq, prevReq, usbOps, elemLog >>
              /\ pc' \in { "df_image", "df_element", "el_return", "after_file" }
    ]_engine

\* the first target had no interface and was passed over, the second is
\* written through the second interface of the collection
C32_Witness ==
  /\ df.image = 2 /\ df.adif = 2 /\ df.bAlternateSetting = 1
  /\ usbOps = << UsbOp("set_interface_alt_setting", 1, "OK") >>
  /\ \E i \in DOMAIN elemLog : elemLog[i] = Logged("DATA", 16, 4)
  /\ pc = "write_check"
DfuSeFileDone ==
  file.name /\ file.bcdDFU = BCD_DFUSE /\ file.elements # << >> /\ ~dfuse_address_present

\* C34: the leave request that follows the download of a DfuSe file starts
\* with SET_ADDRESS to the address of the first element of the file, and the
\* DFU_DNLOAD of length 0 comes after it
C34_LeaveSetsFileAddress ==
  [][ (pc = "leave" /\ DfuSeFileDone) =>
        /\ dfuse_address = file.elements[1].addr
        /\ pc' = "sc_dnload"
        /\ sc'.command = "SET_ADDRESS" /\ sc'.address = file.elements[1].addr
        /\ sc'.retpc = "leave_send"
    ]_engine
\* the modifiers of an option string: what stands between the colons, from
\* position pos on
RECURSIVE ModifiersFrom(_, _)
ModifiersFrom(str, pos) ==
  IF pos > Len(str) THEN { }
  ELSE IF str[pos] = ":" THEN ModifiersFrom(str, pos + 1)
  ELSE { SubSeq(str, pos, Endword(str, pos) - 1) } \cup ModifiersFrom(str, Endword(str, pos))

\* the modifiers of the option string, the leading address left out
Modifiers == ModifiersFrom(dfuse_options, Endword(dfuse_options, 1))

IsInteger(token) == token # << >> /\ strtoul0(token, 1).end = Len(token) + 1

\* C35: after the address only the words force, leave, mass-erase, unprotect
\* and will-reset and integers pass: the parse does not finish on an option
\* string with another modifier, a flag is set only when its word is among the
\* modifiers, and no character behind the terminating NUL is read
C35_OnlyExactModifiers ==
  /\ ~po.past_end
  /\ pc = "po_done" =>
       \A m \in Modifiers : m \in { Keywords[k] : k \in DOMAIN Keywords } \/ IsInteger(m)
  /\ dfuse_force => KW_force \in Modifiers
  /\ dfuse_leave => KW_leave \in Modifiers
  /\ dfuse_unprotect => KW_unprotect \in Modifiers
  /\ dfuse_mass_erase => KW_mass_erase \in Modifiers
  /\ dfuse_will_reset => KW_will_reset \in Modifiers
\* the upload limit as the option string and the memory layout give it, a
\* length of 2^31 and more by its reading as an int
GivenLimit ==
  IF dfuse_length # 0 THEN dfuse_length
  ELSE IF dfuse_address_present /\ find_segment(dif.mem_layout, dfuse_address) # 0
  THEN dif.mem_layout[find_segment(dif.mem_layout, dfuse_address)].end - dfuse_address + 1
  ELSE 16384

\* a <= b for two unsigned numbers of 32 bits given by their int readings
UnsignedLeq(a, b) == IF (a < 0) = (b < 0) THEN a <= b ELSE b < 0

\* n bytes are no more than what is missing to the limit after total bytes
WithinLimit(n, total) ==
  IF GivenLimit < 0 THEN UnsignedLeq(n, GivenLimit) ELSE n <= GivenLimit - total

\* C36: in a DfuSe upload no more bytes are written than the limit (the length
\* given, else the rest of the segment of the address, else 0x4000); the
\* DFU_UPLOAD requests carry the transaction numbers 2, 3, 4, ..., none asks
\* for more than the transfer size or than what is missing to the limit, the
\* loop ends with the first short read or when the limit is reached, and
\* DFU_ABORT follows
C36_UploadBounded ==
  [][ /\ UnsignedLeq(up'.total_bytes, GivenLimit)
      /\ pc = "up_loop" =>
           /\ lastReq'.req = "UPLOAD"
           /\ lastReq'.wValue = IF lastReq.req = "UPLOAD" THEN lastReq.wValue + 1 ELSE 2
           /\ lastReq'.len <= xfer_size
           /\ WithinLimit(lastReq'.len, up.total_bytes)
           /\ up'.rc >= 0 =>
                (pc' = "up_end" <=>
                   \/ up'.rc < lastReq'.len
                   \/ UnsignedLeq(GivenLimit, up'.total_bytes))
      /\ pc = "up_end" => lastReq'.req = "ABORT"
    ]_engine
\* the IDs in the suffix of the file fit the pair v:p, 0xffff fits any ID
FileFits(v, p) ==
  /\ file.idVendor = 65535 \/ file.idVendor = v
  /\ file.idProduct = 65535 \/ file.idProduct = p

\* C37: a download whose file fits neither the run-time IDs nor the IDs of
\* the device in DFU mode ends with a usage error at the switch on the mode:
\* nothing is handed to the download routine, no DFU_DNLOAD was or is sent
C37_FileIdChecked ==
  [][ (pc = "mode_dispatch" /\ mode = "DOWNLOAD") =>
        /\ lastReq.req # "DNLOAD" /\ prevReq # "DNLOAD" /\ UNCHANGED lastReq
        /\ IF ~FileFits(runtime_vendor, runtime_product)
                /\ ~FileFits(dfu_root[1].vendor, dfu_root[1].product)
           THEN pc' = "exit" /\ exit_status'.code = "EX_USAGE"
           ELSE pc' = "handed"
    ]_engine

\* a file for 0483:df11 was refused on a device with other IDs in both modes
C37_Witness ==
  /\ pc = "exit" /\ exit_status.code = "EX_USAGE"
  /\ exit_status.msg = "Error: File ID %04x:%04x does not match device"
  /\ mode = "DOWNLOAD" /\ file.idVendor = 1155
  /\ runtime_vendor # 1155 /\ dfu_root[1].vendor # 1155
  /\ lastReq.req # "DNLOAD"
\* C38: with unprotect and force dfuse_do_dnload sends READ_UNPROTECT, polls
\* the status and returns: no other special command, no element, no
\* DFU_ABORT and no leave request, whatever else was asked for
C38_UnprotectOnly ==
  (dfuse_unprotect /\ dfuse_force) =>
    /\ pc \in { "start", "sc_dnload", "sc_getstatus", "done", "exit" }
    /\ sc.command \in { "", "READ_UNPROTECT" }
    /\ el = NoEl
    /\ lastReq.req \in { "NONE", "DNLOAD", "GETSTATUS" }
    /\ lastReq.req = "DNLOAD" => lastReq = Req("DNLOAD", 0, 1, << 146 >>)
    /\ prevReq \in { "NONE", "DNLOAD", "GETSTATUS" }
    /\ \A i \in DOMAIN elemLog : elemLog[i].kind = "READ_UNPROTECT"

\* the run is over after the read unprotect although a mass erase, a leave
\* request and a file were asked for as well
C38_Witness ==
  /\ dfuse_unprotect /\ dfuse_force /\ dfuse_mass_erase /\ dfuse_leave /\ file.name
  /\ pc = "done"
  /\ prevReq = "DNLOAD" /\ lastReq.req = "GETSTATUS"
\* C39: a special command whose polls are answered with dfuERROR and a nonzero
\* poll timeout from some poll on, on a device that is not the STM32H7 case,
\* comes to an end: it returns or the run ends with a fatal error
PersistentError ==
  /\ sc.command # ""
  /\ sc.bState = "dfuERROR"
  /\ pc = "sc_getstatus" => sc.bwPollTimeout # 0
  /\ ~(Stm32h7Device(dif) /\ Stm32h7Serial(dif))
C39_ErrorPollingEnds ==
  <>[]PersistentError => <>(pc \notin { "start", "sc_dnload", "sc_getstatus", "sc_clear" })
\* C40: the fatal error "ended with an error" that follows a poll loop left
\* with bStatus != OK is never raised for ERASE_PAGE on the STM32H7 device
\* (0483:df11 with the serial name 200364500000): there the error is spurious
\* and the command returns
C40_SpuriousOnStm32h7 ==
  [][ /\ pc = "sc_getstatus"
      /\ pc' = "exit"
      /\ exit_status'.msg = "command ended with an error"
      => ~(sc.command = "ERASE_PAGE" /\ Stm32h7Device(dif) /\ Stm32h7Serial(dif))
    ]_engine
====
